---- MODULE Spec2Model ----
(***************************************************************************)
(* Event-processing core of the template router: the unique-host arbiter   *)
(* in front of the template plugin and the TestRouter store                *)
(* (pkg/router/template/plugin_test.go), the validator stages of the chain *)
(* (ExtendedValidator, DeprecationValidation, UpgradeValidation) and the   *)
(* quote-tracking scanner of rewrite paths (haproxy_fuzz_test.go).         *)
(***************************************************************************)
EXTENDS Naturals, Integers, Sequences, FiniteSets, TLC

VARIABLES State, ServiceUnits, index, allowedNamespaces, rejections, last,
          \* the validator stages: the next stage (fakePlugin), the check-only
          \* template plugin, the recorder's deprecated list and conditions,
          \* the calls the latest HandleRoute made, the force options
          fake, templatePlugin, deprecated, conditions, calls,
          forceAddCondition, forceRemoveCondition,
          \* the scanner: its argument and its result, and the result of the
          \* earlier validation of the same argument
          routePath, rejected, simpleValid,
          \* endpoints events: the Endpoints object of the latest event, the
          \* template plugin's includeUDP, the number of tables AddEndpoints
          \* replaced, and whether the store changed since the latest Commit
          endpoints, includeUDP, changes, dirty,
          \* the older validator of plugin_test.go: its gauge, and the routes
          \* the cluster holds (the latest version of each route not deleted)
          metricPostUpgradeInvalidRoute, present,
          \* the Node of the latest node event
          node

routerVars == <<State, ServiceUnits, index, allowedNamespaces>>

validatorVars == <<fake, templatePlugin, deprecated, conditions, calls,
                   forceAddCondition, forceRemoveCondition>>

scanVars == <<routePath, rejected, simpleValid>>

endpointVars == <<endpoints, includeUDP, changes, dirty>>

metricVars == <<metricPostUpgradeInvalidRoute, present>>

vars == <<routerVars, rejections, last, validatorVars, scanVars, endpointVars,
          metricVars, node>>

(***************************************************************************)
(* Bounds                                                                  *)
(***************************************************************************)
\* the status recorder's list is cleared by the caller before it grows past this
MaxRejections == 1

(***************************************************************************)
(* watch.EventType                                                         *)
(***************************************************************************)
Added == "ADDED"
Modified == "MODIFIED"
Deleted == "DELETED"
EventTypes == {Added, Modified, Deleted}

(***************************************************************************)
(* Route objects delivered by the event source (fixtures of                *)
(* TestHandleRoute and TestNamespaceScopingFromEmpty, plus a competitor    *)
(* from a second namespace whose creationTimestamp ties with fooTest1).    *)
(* CreationTimestamp is in hours relative to original - 1h.                *)
(***************************************************************************)
fooTest1 ==
  [UID |-> "001", Namespace |-> "foo", Name |-> "test", CreationTimestamp |-> 1,
   Host |-> "www.example.com", Path |-> "", To |-> "TestService", Weight |-> 0]

fooDupe2 ==
  [UID |-> "002", Namespace |-> "foo", Name |-> "dupe", CreationTimestamp |-> 2,
   Host |-> "www.example.com", Path |-> "", To |-> "TestService2", Weight |-> 0]

fooDupe3 ==
  [fooDupe2 EXCEPT !.UID = "003", !.CreationTimestamp = 0]

fooTest1NewHost ==
  [fooTest1 EXCEPT !.Host = "www.example2.com"]

barTie ==
  [UID |-> "004", Namespace |-> "bar", Name |-> "tie", CreationTimestamp |-> 1,
   Host |-> "www.example.com", Path |-> "", To |-> "TestService", Weight |-> 0]

Routes == {fooTest1, fooDupe2, fooDupe3, fooTest1NewHost, barTie}

Namespaces == {"foo", "bar"}

NoRoute ==
  [UID |-> "", Namespace |-> "", Name |-> "", CreationTimestamp |-> 0,
   Host |-> "", Path |-> "", To |-> "", Weight |-> 0]

(***************************************************************************)
(* Maps (Go map[K]V) as functions with a finite domain                     *)
(***************************************************************************)
EmptyMap == [x \in {} |-> 0]

MapPut(m, k, v) == [x \in (DOMAIN m) \cup {k} |-> IF x = k THEN v ELSE m[x]]

MapDelete(m, k) == [x \in (DOMAIN m) \ {k} |-> m[x]]

MapRestrict(m, keep) == [x \in (DOMAIN m) \cap keep |-> m[x]]

(***************************************************************************)
(* Keys                                                                    *)
(***************************************************************************)
\* ServiceAliasConfigKey built from two parts
routeKeyFromParts(a, b) == <<a, b>>

\* the two parts of a ServiceAliasConfigKey
getPartsFromRouteKey(k) == k

\* ServiceUnitKey "ns/name"
endpointsKeyFromParts(namespace, name) == <<namespace, name>>

\* the two parts of a ServiceUnitKey
getPartsFromEndpointsKey(k) == k

\* getKey create an identifier for the route consisting of host-path
getKey(route) == routeKeyFromParts(route.Host, route.Path)

\* the backends of a route with their weights
getServiceUnits(route) ==
  MapPut(EmptyMap, endpointsKeyFromParts(route.Namespace, route.To), route.Weight)

(***************************************************************************)
(* TestRouter: r is [State, ServiceUnits]                                  *)
(***************************************************************************)
newTestRouter(state) == [State |-> state, ServiceUnits |-> EmptyMap]

CreateServiceUnit(r, id) ==
  [r EXCEPT !.ServiceUnits =
     MapPut(r.ServiceUnits, id, [Name |-> id, EndpointTable |-> <<>>])]

FindServiceUnit(r, id) == id \in DOMAIN r.ServiceUnits

calculateServiceWeights(serviceUnits) ==
  [key \in DOMAIN serviceUnits |-> serviceUnits[key]]

RECURSIVE CreateServiceUnits(_, _)
CreateServiceUnits(r, ids) ==
  IF ids = {} THEN r
  ELSE LET id == CHOOSE i \in ids : TRUE
       IN CreateServiceUnits(CreateServiceUnit(r, id), ids \ {id})

\* the ServiceAliasConfig AddRoute builds for a route
ConfigOf(route) ==
  [Host |-> route.Host,
   Path |-> route.Path,
   ServiceUnits |-> getServiceUnits(route),
   ServiceUnitNames |-> calculateServiceWeights(getServiceUnits(route))]

\* AddRoute that leaves out the final r.State[routeKey] = config
AddRoute_NoState(r, route) ==
  CreateServiceUnits(r, DOMAIN ConfigOf(route).ServiceUnits)

\* AddRoute that leaves out the CreateServiceUnit loop
AddRoute_NoUnits(r, route) ==
  [r EXCEPT !.State = MapPut(r.State, getKey(route), ConfigOf(route))]

AddRoute(r, route) ==
  LET routeKey == getKey(route)
      config == ConfigOf(route)
      r1 == CreateServiceUnits(r, DOMAIN config.ServiceUnits)
  IN [r1 EXCEPT !.State = MapPut(r1.State, routeKey, config)]

\* RemoveRoute with the presence test inverted: nothing is ever deleted
RemoveRoute_Inverted(r, route) ==
  LET routeKey == getKey(route)
  IN IF routeKey \in DOMAIN r.State THEN r
     ELSE [r EXCEPT !.State = MapDelete(r.State, routeKey)]

RemoveRoute(r, route) ==
  LET routeKey == getKey(route)
  IN IF routeKey \notin DOMAIN r.State THEN r
     ELSE [r EXCEPT !.State = MapDelete(r.State, routeKey)]

\* FilterNamespaces without the loop over r.ServiceUnits
FilterNamespaces_KeepUnits(r, namespaces) ==
  LET r0 == IF Cardinality(namespaces) = 0
            THEN [State |-> EmptyMap, ServiceUnits |-> EmptyMap]
            ELSE r
      keepState == {k \in DOMAIN r0.State :
                      getPartsFromRouteKey(k)[1] \in namespaces}
  IN [State |-> MapRestrict(r0.State, keepState),
      ServiceUnits |-> r0.ServiceUnits]

FilterNamespaces(r, namespaces) ==
  LET r0 == IF Cardinality(namespaces) = 0
            THEN [State |-> EmptyMap, ServiceUnits |-> EmptyMap]
            ELSE r
      keepUnits == {k \in DOMAIN r0.ServiceUnits :
                      getPartsFromEndpointsKey(k)[1] \in namespaces}
      keepState == {k \in DOMAIN r0.State :
                      getPartsFromRouteKey(k)[1] \in namespaces}
  IN [State |-> MapRestrict(r0.State, keepState),
      ServiceUnits |-> MapRestrict(r0.ServiceUnits, keepUnits)]

(***************************************************************************)
(* fakeStatusRecorder                                                      *)
(***************************************************************************)
\* a recorder that stores reason and message in each other's field
RecordRouteRejection_Swapped(rej, route, reason, message) ==
  Append(rej, [route |-> route, reason |-> message, message |-> reason])

RecordRouteRejection(rej, route, reason, message) ==
  Append(rej, [route |-> route, reason |-> reason, message |-> message])

(***************************************************************************)
(* TemplatePlugin: the terminal stage in front of the router               *)
(***************************************************************************)
TemplateHandleRoute(r, eventType, route) ==
  IF eventType \in {Added, Modified} THEN AddRoute(r, route)
  ELSE RemoveRoute(r, route)

TemplateHandleNamespaces(r, namespaces) == FilterNamespaces(r, namespaces)

(***************************************************************************)
(* UniqueHost: the unique-host arbiter in front of the template plugin.    *)
(* c is [r, index, rejections, err]: the router behind the template        *)
(* plugin, the host index, the recorder's rejections, the returned error.  *)
(* index maps a claimed host+path key to the routes that asked for it,     *)
(* the owner first.                                                        *)
(***************************************************************************)
NoNamespaceFilter == [set |-> FALSE, names |-> {}]

RemoveUID(list, uid) == SelectSeq(list, LAMBDA x : x.UID # uid)

RECURSIVE RetractAll(_, _)
RetractAll(r, routes) ==
  IF routes = {} THEN r
  ELSE LET old == CHOOSE x \in routes : TRUE
       IN RetractAll(TemplateHandleRoute(r, Deleted, old), routes \ {old})

\* the route takes the claim on its key: a claim the same route held on
\* another key is released and its config retracted, then the event goes
\* to the next plugin
\* an admission that leaves the claims the route has on other keys in place
Admit_KeepsOldClaim(c, eventType, route, others) ==
  [c EXCEPT
     !.index = MapPut(c.index, getKey(route), <<route>> \o others),
     !.r = TemplateHandleRoute(c.r, eventType, route),
     !.err = "nil"]

Admit(c, eventType, route, others) ==
  LET k == getKey(route)
      moved == {k2 \in (DOMAIN c.index) \ {k} : Head(c.index[k2]).UID = route.UID}
      r1 == RetractAll(c.r, {Head(c.index[k2]) : k2 \in moved})
      keep == ((DOMAIN c.index) \ moved) \cup {k}
  IN [c EXCEPT
        !.index = [k2 \in keep |->
                     IF k2 = k THEN <<route>> \o others
                     ELSE RemoveUID(c.index[k2], route.UID)],
        !.r = TemplateHandleRoute(r1, eventType, route),
        !.err = "nil"]

HostAlreadyClaimed == "HostAlreadyClaimed"

EvictOwner(c, owner, route) ==
  [c EXCEPT
     !.rejections = RecordRouteRejection(c.rejections, owner, HostAlreadyClaimed,
                      "replaced by older route " \o route.Name),
     !.r = TemplateHandleRoute(c.r, Deleted, owner)]

\* a rejection that is also returned to the caller as an error
RejectIncoming_ReturnsError(c, owner, route) ==
  [c EXCEPT
     !.rejections = RecordRouteRejection(c.rejections, route, HostAlreadyClaimed,
                      "route " \o owner.Name \o " already exposes " \o route.Host
                        \o " and is older"),
     !.index = [c.index EXCEPT ![getKey(route)] = Append(RemoveUID(@, route.UID), route)],
     !.err = HostAlreadyClaimed]

\* a rejection that leaves the rejected route out of the index
RejectIncoming_Unlisted(c, owner, route) ==
  [c EXCEPT
     !.rejections = RecordRouteRejection(c.rejections, route, HostAlreadyClaimed,
                      "route " \o owner.Name \o " already exposes " \o route.Host
                        \o " and is older"),
     !.err = "nil"]

RejectIncoming(c, owner, route) ==
  [c EXCEPT
     !.rejections = RecordRouteRejection(c.rejections, route, HostAlreadyClaimed,
                      "route " \o owner.Name \o " already exposes " \o route.Host
                        \o " and is older"),
     !.index = [c.index EXCEPT ![getKey(route)] = Append(RemoveUID(@, route.UID), route)],
     !.err = "nil"]

\* arbitration in which a tie goes to the incoming route
IncomingWins_OnTie(route, owner) == route.CreationTimestamp <= owner.CreationTimestamp

\* older wins; on a tie the owner keeps the claim
IncomingWins(route, owner) == route.CreationTimestamp < owner.CreationTimestamp

InScope(allowed, route) == ~allowed.set \/ route.Namespace \in allowed.names

\* a Deleted event that is passed to the next plugin whoever owns the key
HandleDeleted_AlwaysForward(c, route) ==
  LET k == getKey(route)
  IN [c EXCEPT !.r = TemplateHandleRoute(c.r, Deleted, route),
               !.index = IF k \in DOMAIN c.index /\ Head(c.index[k]).UID = route.UID
                         THEN MapDelete(c.index, k) ELSE c.index,
               !.err = "nil"]

\* Deleted: the owner's config and claim entry are removed; the Deleted
\* event of any other route is a no-op
HandleDeleted(c, route) ==
  LET k == getKey(route)
  IN IF k \in DOMAIN c.index /\ Head(c.index[k]).UID = route.UID
     THEN [c EXCEPT !.r = TemplateHandleRoute(c.r, Deleted, route),
                    !.index = MapDelete(c.index, k),
                    !.err = "nil"]
     ELSE [c EXCEPT !.err = "nil"]

UniqueHostHandleRoute(c, allowed, eventType, route) ==
  LET k == getKey(route)
  IN IF ~InScope(allowed, route) THEN [c EXCEPT !.err = "nil"]
     ELSE IF eventType = Deleted THEN HandleDeleted(c, route)
     ELSE IF k \notin DOMAIN c.index
     THEN Admit(c, eventType, route, <<>>)
     ELSE LET owner == Head(c.index[k])
              others == RemoveUID(Tail(c.index[k]), route.UID)
          IN IF owner.UID = route.UID
             THEN Admit(c, eventType, route, others)
             ELSE IF IncomingWins(route, owner)
             THEN Admit(EvictOwner(c, owner, route), eventType, route, <<owner>> \o others)
             ELSE RejectIncoming(c, owner, route)

\* index.Filter: claims of routes outside the namespaces are dropped
FilterIndex(idx, namespaces) ==
  LET keep == {k \in DOMAIN idx : Head(idx[k]).Namespace \in namespaces}
  IN [k \in keep |-> SelectSeq(idx[k], LAMBDA x : x.Namespace \in namespaces)]

UniqueHostHandleNamespaces(c, namespaces) ==
  [c EXCEPT !.index = FilterIndex(c.index, namespaces),
            !.r = TemplateHandleNamespaces(c.r, namespaces),
            !.err = "nil"]

RoutesForHost(idx, host) ==
  LET ks == {k \in DOMAIN idx : k[1] = host}
  IN IF ks = {} THEN [ok |-> FALSE, routes |-> <<>>]
     ELSE [ok |-> TRUE, routes |-> idx[CHOOSE k \in ks : TRUE]]

HostLen(idx) == Cardinality({k[1] : k \in DOMAIN idx})

(***************************************************************************)
(* The state machine: one action per call of the event source              *)
(***************************************************************************)
Cur == [r |-> [State |-> State, ServiceUnits |-> ServiceUnits],
        index |-> index, rejections |-> rejections, err |-> "nil"]

\* the call just made: its arguments and its result, and the scope that the
\* latest HandleNamespaces call replaced
Call(op, eventType, route, namespaces, err, scope) ==
  [op |-> op, eventType |-> eventType, route |-> route,
   namespaces |-> namespaces, err |-> err, scope |-> scope]

\* the store, the arbiter and the recorder as TestHandleRoute constructs them
InitRouter ==
  /\ State = newTestRouter(EmptyMap).State
  /\ ServiceUnits = newTestRouter(EmptyMap).ServiceUnits
  /\ index = EmptyMap
  /\ allowedNamespaces = NoNamespaceFilter
  /\ rejections = <<>>
  /\ last = Call("init", "", NoRoute, {}, "nil", NoNamespaceFilter)

\* no validator stage is in the chain
NoValidators ==
  /\ fake = [Route |-> NoRoute, Err |-> "nil"]
  /\ templatePlugin = {}
  /\ deprecated = <<>>
  /\ conditions = {}
  /\ calls = <<>>
  /\ forceAddCondition = ""
  /\ forceRemoveCondition = ""

\* the scanner is not run
NoScan ==
  /\ routePath = <<>>
  /\ rejected = "none"
  /\ simpleValid = "none"

\* no Endpoints object
NoEndpointsObject == [Namespace |-> "", Name |-> "", Subsets |-> <<>>]

\* no endpoints event is delivered and no commit is scheduled
NoEndpoints ==
  /\ endpoints = NoEndpointsObject
  /\ includeUDP = TRUE
  /\ changes = 0
  /\ dirty = FALSE

\* no Node
NoNode == [Name |-> ""]

\* no node event is delivered
NoNodeEvent == node = NoNode

\* the older validator is not in the chain
NoMetric ==
  /\ metricPostUpgradeInvalidRoute = 0
  /\ present = {}

Init ==
  /\ InitRouter
  /\ NoValidators
  /\ NoScan
  /\ NoEndpoints
  /\ NoMetric
  /\ NoNodeEvent

HandleRoute(eventType, route) ==
  /\ Len(rejections) < MaxRejections
  /\ LET c == UniqueHostHandleRoute(Cur, allowedNamespaces, eventType, route)
     IN /\ State' = c.r.State
        /\ ServiceUnits' = c.r.ServiceUnits
        /\ index' = c.index
        /\ rejections' = c.rejections
        /\ last' = Call("HandleRoute", eventType, route, {}, c.err, last.scope)
  /\ UNCHANGED <<allowedNamespaces, validatorVars, scanVars, endpointVars, metricVars, node>>

HandleNamespaces(namespaces) ==
  /\ LET c == UniqueHostHandleNamespaces(Cur, namespaces)
     IN /\ State' = c.r.State
        /\ ServiceUnits' = c.r.ServiceUnits
        /\ index' = c.index
        /\ last' = Call("HandleNamespaces", "", NoRoute, namespaces, c.err, allowedNamespaces)
  /\ allowedNamespaces' = [set |-> TRUE, names |-> namespaces]
  /\ UNCHANGED <<rejections, validatorVars, scanVars, endpointVars, metricVars, node>>

\* the caller empties the recorder (rejections.rejections = nil)
ClearRejections ==
  /\ rejections # <<>>
  /\ rejections' = <<>>
  /\ last' = Call("ClearRejections", "", NoRoute, {}, "nil", last.scope)
  /\ UNCHANGED <<routerVars, validatorVars, scanVars, endpointVars, metricVars, node>>

Next ==
  \/ \E eventType \in EventTypes, route \in Routes : HandleRoute(eventType, route)
  \/ \E namespaces \in SUBSET Namespaces : HandleNamespaces(namespaces)
  \/ ClearRejections

Spec == Init /\ [][Next]_vars

\* route events only: HandleNamespaces is never called, no scope is set
NextRoutes ==
  \/ \E eventType \in EventTypes, route \in Routes : HandleRoute(eventType, route)
  \/ ClearRejections

SpecRoutes == Init /\ [][NextRoutes]_vars

TypeOK ==
  /\ DOMAIN State \subseteq {getKey(route) : route \in Routes}
  /\ \A k \in DOMAIN State : State[k] \in {ConfigOf(route) : route \in Routes}
  /\ \A k \in DOMAIN index : index[k] # <<>> /\ \A i \in 1..Len(index[k]) : index[k][i] \in Routes
  /\ Len(rejections) <= MaxRejections
  /\ allowedNamespaces.names \subseteq Namespaces

(***************************************************************************)
(* Routes offered to the validator stages: the route of                    *)
(* TestHandleRouteExtendedValidation in the versions its table and spec    *)
(* section 8 describe, told apart by their TLS settings:                   *)
(*   ""          no TLS                                                    *)
(*   "reencrypt" Reencrypt with a consistent, correctly chained cert/key   *)
(*   "mismatch"  Reencrypt with a certificate and a key that do not match  *)
(*   "sha1"      a consistent cert/key whose signature is weak             *)
(***************************************************************************)
TLSKinds == {"", "reencrypt", "mismatch", "sha1"}

ValidatorUIDs == {"001", "002"}

ValidatorRoute(uid, tls) ==
  [UID |-> uid, Namespace |-> "foo", Name |-> "test", CreationTimestamp |-> 1,
   Host |-> "www.example.com", Path |-> "", To |-> "TestService", Weight |-> 0,
   TLS |-> tls]

ValidatorRoutes == {ValidatorRoute(uid, tls) : uid \in ValidatorUIDs, tls \in TLSKinds}

\* the records the recorder may hold before its caller clears it
MaxRecords == 2

(***************************************************************************)
(* routeapihelpers: the rule sets, each returning "nil" or the aggregate   *)
(* error text                                                              *)
(***************************************************************************)
ExtendedValidateRoute(route) ==
  IF route.TLS = "mismatch" THEN "tls: private key does not match public key"
  ELSE "nil"

DeprecatedValidateRoute(route) ==
  IF route.TLS = "sha1" THEN "x509: insecure algorithm SHA1-RSA"
  ELSE "nil"

UpgradeRouteValidation(route) ==
  IF route.TLS = "sha1" THEN "x509: insecure algorithm SHA1-RSA"
  ELSE "nil"

(***************************************************************************)
(* fakePlugin: the next stage of the validator tests                       *)
(***************************************************************************)
FakeErrs == {"nil", "fake plugin error"}

\* p.Route = route; return p.Err
fakePluginHandleRoute(p, event, route) == [p EXCEPT !.Route = route]

(***************************************************************************)
(* The check-only template plugin of ExtendedValidator, as the set of      *)
(* routes it holds; CheckConfig is the proxy's dry run, a collaborator     *)
(* whose result is an input of the call.                                   *)
(***************************************************************************)
CheckErrs == {"nil", "haproxy: configuration file is not valid"}

CheckPluginHandleRoute(held, eventType, route) ==
  IF eventType = Deleted THEN held \ {route} ELSE held \cup {route}

(***************************************************************************)
(* An outgoing call of a stage: to is "recorder", "plugin" (the next       *)
(* stage) or "templatePlugin"; op is the method or the event type.         *)
(***************************************************************************)
OutCall(to, op, route, arg) == [to |-> to, op |-> op, route |-> route, arg |-> arg]

(***************************************************************************)
(* ExtendedValidator.HandleRoute.  v is [rejections, fake, templatePlugin, *)
(* calls, err]; calls collects the outgoing calls in the order made.       *)
(***************************************************************************)
\* a validator that forwards the original event of an invalid route
RejectInvalidRoute_ForwardsOriginal(v, eventType, route, message) ==
  [v EXCEPT !.rejections = RecordRouteRejection(@, route, "ExtendedValidationFailed", message),
            !.fake = fakePluginHandleRoute(@, eventType, route),
            !.calls = @ \o <<OutCall("recorder", "RecordRouteRejection", route, "ExtendedValidationFailed"),
                             OutCall("plugin", eventType, route, "")>>,
            !.err = "invalid route configuration"]

\* a validator that rejects without telling the recorder
RejectInvalidRoute_Unrecorded(v, eventType, route, message) ==
  [v EXCEPT !.fake = fakePluginHandleRoute(@, Deleted, route),
            !.calls = @ \o <<OutCall("plugin", Deleted, route, "")>>,
            !.err = "invalid route configuration"]

\* structural validation failed: record, retract downstream, block
RejectInvalidRoute(v, eventType, route, message) ==
  [v EXCEPT !.rejections = RecordRouteRejection(@, route, "ExtendedValidationFailed", message),
            !.fake = fakePluginHandleRoute(@, Deleted, route),
            !.calls = @ \o <<OutCall("recorder", "RecordRouteRejection", route, "ExtendedValidationFailed"),
                             OutCall("plugin", Deleted, route, "")>>,
            !.err = "invalid route configuration"]

\* p.templatePlugin.HandleRoute(eventType, route)
CheckPluginCall(v, eventType, route) ==
  [v EXCEPT !.templatePlugin = CheckPluginHandleRoute(@, eventType, route),
            !.calls = @ \o <<OutCall("templatePlugin", eventType, route, "")>>]

\* p.templatePlugin.CheckConfig(), whose result checkErr is the collaborator's
CheckConfig(v, route, checkErr) ==
  [v EXCEPT !.calls = @ \o <<OutCall("templatePlugin", "CheckConfig", route, checkErr)>>]

\* a failed check after which the original event still goes to the next stage
RejectFailedCheck_Forwards(v, route, checkErr) ==
  LET w == CheckPluginCall(v, Deleted, route)
  IN [w EXCEPT !.rejections = RecordRouteRejection(@, route, "HAProxyCheckConfigFailed", checkErr),
               !.fake = fakePluginHandleRoute(@, Added, route),
               !.calls = @ \o <<OutCall("recorder", "RecordRouteRejection", route, "HAProxyCheckConfigFailed"),
                                OutCall("plugin", Added, route, "")>>,
               !.err = checkErr]

\* a failed check that leaves the route in the check plugin
RejectFailedCheck_KeepsRoute(v, route, checkErr) ==
  [v EXCEPT !.rejections = RecordRouteRejection(@, route, "HAProxyCheckConfigFailed", checkErr),
            !.calls = @ \o <<OutCall("recorder", "RecordRouteRejection", route, "HAProxyCheckConfigFailed")>>,
            !.err = checkErr]

\* the configuration check failed: clean the check plugin, record, block
RejectFailedCheck(v, route, checkErr) ==
  LET w == CheckPluginCall(v, Deleted, route)
  IN [w EXCEPT !.rejections = RecordRouteRejection(@, route, "HAProxyCheckConfigFailed", checkErr),
               !.calls = @ \o <<OutCall("recorder", "RecordRouteRejection", route, "HAProxyCheckConfigFailed")>>,
               !.err = checkErr]

\* return p.plugin.HandleRoute(eventType, route)
ForwardToPlugin(v, eventType, route) ==
  [v EXCEPT !.fake = fakePluginHandleRoute(@, eventType, route),
            !.calls = @ \o <<OutCall("plugin", eventType, route, "")>>,
            !.err = v.fake.Err]

ExtendedValidatorHandleRoute(v, eventType, route, checkErr) ==
  IF ExtendedValidateRoute(route) # "nil"
  THEN RejectInvalidRoute(v, eventType, route, ExtendedValidateRoute(route))
  ELSE LET w == CheckConfig(CheckPluginCall(v, Added, route), route, checkErr)
       IN IF checkErr # "nil"
          THEN RejectFailedCheck(w, route, checkErr)
          ELSE ForwardToPlugin(CheckPluginCall(w, Deleted, route), eventType, route)

(***************************************************************************)
(* The validator in front of fakePlugin, with fakeStatusRecorder           *)
(* (TestHandleRouteExtendedValidation)                                     *)
(***************************************************************************)
InitExtended ==
  /\ InitRouter
  /\ NoScan
  /\ NoEndpoints
  /\ NoMetric
  /\ NoNodeEvent
  /\ fake \in {[Route |-> NoRoute, Err |-> e] : e \in FakeErrs}
  /\ templatePlugin = {}
  /\ deprecated = <<>>
  /\ conditions = {}
  /\ calls = <<>>
  /\ forceAddCondition = ""
  /\ forceRemoveCondition = ""

ExtendedHandleRoute(eventType, route, checkErr) ==
  /\ Len(rejections) < MaxRecords
  /\ LET v == ExtendedValidatorHandleRoute(
                [rejections |-> rejections, fake |-> fake,
                 templatePlugin |-> templatePlugin, calls |-> <<>>, err |-> "nil"],
                eventType, route, checkErr)
     IN /\ rejections' = v.rejections
        /\ fake' = v.fake
        /\ templatePlugin' = v.templatePlugin
        /\ calls' = v.calls
        /\ last' = Call("ExtendedValidator.HandleRoute", eventType, route, {}, v.err,
                        NoNamespaceFilter)
  /\ UNCHANGED <<routerVars, deprecated, conditions, forceAddCondition,
                 forceRemoveCondition, scanVars, endpointVars, metricVars, node>>

\* the caller empties the recorder between two cases
ClearRecorder ==
  /\ rejections # <<>> \/ deprecated # <<>>
  /\ rejections' = <<>>
  /\ deprecated' = <<>>
  /\ calls' = <<>>
  /\ last' = Call("ClearRecorder", "", NoRoute, {}, "nil", NoNamespaceFilter)
  /\ UNCHANGED <<routerVars, fake, templatePlugin, conditions, forceAddCondition,
                 forceRemoveCondition, scanVars, endpointVars, metricVars, node>>

NextExtended ==
  \/ \E eventType \in EventTypes, route \in ValidatorRoutes, checkErr \in CheckErrs :
       ExtendedHandleRoute(eventType, route, checkErr)
  \/ ClearRecorder

SpecExtended == InitExtended /\ [][NextExtended]_vars

(***************************************************************************)
(* fakeStatusRecorder.deprecated                                           *)
(***************************************************************************)
RecordRouteDeprecated(dep, route, reason, message) ==
  Append(dep, [route |-> route, reason |-> reason, message |-> message])

NotSameUID(route, status) == status.route.UID # route.UID

\* a recorder that forgets every route when one is no longer deprecated
RecordRouteNotDeprecated_ClearsAll(dep, route) == <<>>

RecordRouteNotDeprecated(dep, route) ==
  SelectSeq(dep, LAMBDA status : NotSameUID(route, status))

isDeprecated(dep, route) ==
  \E n \in 1..Len(dep) : dep[n].route.UID = route.UID

(***************************************************************************)
(* DeprecationValidation.HandleRoute.  d is [deprecated, fake, calls, err] *)
(***************************************************************************)
\* a deprecation validator that blocks the deprecated route
DeprecationValidationHandleRoute_Blocking(d, eventType, route) ==
  IF DeprecatedValidateRoute(route) # "nil"
  THEN [d EXCEPT !.deprecated = RecordRouteDeprecated(@, route, "DeprecatedValidationFailed",
                                                      DeprecatedValidateRoute(route)),
                 !.fake = fakePluginHandleRoute(@, Deleted, route),
                 !.calls = @ \o <<OutCall("recorder", "RecordRouteDeprecated", route,
                                          "DeprecatedValidationFailed"),
                                  OutCall("plugin", Deleted, route, "")>>,
                 !.err = "deprecated route"]
  ELSE ForwardToPlugin(
         [d EXCEPT !.deprecated = RecordRouteNotDeprecated(@, route),
                   !.calls = @ \o <<OutCall("recorder", "RecordRouteNotDeprecated", route, "")>>],
         eventType, route)

\* a deprecation validator that never clears its record
DeprecationValidationHandleRoute_NoClear(d, eventType, route) ==
  IF DeprecatedValidateRoute(route) # "nil"
  THEN ForwardToPlugin(
         [d EXCEPT !.deprecated = RecordRouteDeprecated(@, route, "DeprecatedValidationFailed",
                                                        DeprecatedValidateRoute(route)),
                   !.calls = @ \o <<OutCall("recorder", "RecordRouteDeprecated", route,
                                            "DeprecatedValidationFailed")>>],
         eventType, route)
  ELSE ForwardToPlugin(d, eventType, route)

DeprecationValidationHandleRoute(d, eventType, route) ==
  IF DeprecatedValidateRoute(route) # "nil"
  THEN ForwardToPlugin(
         [d EXCEPT !.deprecated = RecordRouteDeprecated(@, route, "DeprecatedValidationFailed",
                                                        DeprecatedValidateRoute(route)),
                   !.calls = @ \o <<OutCall("recorder", "RecordRouteDeprecated", route,
                                            "DeprecatedValidationFailed")>>],
         eventType, route)
  ELSE ForwardToPlugin(
         [d EXCEPT !.deprecated = RecordRouteNotDeprecated(@, route),
                   !.calls = @ \o <<OutCall("recorder", "RecordRouteNotDeprecated", route, "")>>],
         eventType, route)

(***************************************************************************)
(* The recorder's route conditions, as the set of [UID, conditionType]     *)
(* that are true                                                           *)
(***************************************************************************)
UnservableInFutureVersions == "UnservableInFutureVersions"

Condition(route, conditionType) == [UID |-> route.UID, conditionType |-> conditionType]

RecordRouteConditionTrue(cond, route, conditionType) ==
  cond \cup {Condition(route, conditionType)}

RecordRouteConditionClear(cond, route, conditionType) ==
  cond \ {Condition(route, conditionType)}

RecordRouteUnservableInFutureVersions(cond, route) ==
  RecordRouteConditionTrue(cond, route, UnservableInFutureVersions)

RecordRouteUnservableInFutureVersionsClear(cond, route) ==
  RecordRouteConditionClear(cond, route, UnservableInFutureVersions)

(***************************************************************************)
(* UpgradeValidation.HandleRoute.  u is [conditions, fake, calls, err]     *)
(***************************************************************************)
\* an upgrade validator that evaluates its rules in the forced modes too
UpgradeValidationHandleRoute_RulesWhenForced(u, forceAdd, forceRemove, eventType, route) ==
  IF UpgradeRouteValidation(route) # "nil"
  THEN ForwardToPlugin(
         [u EXCEPT !.conditions = RecordRouteUnservableInFutureVersions(@, route),
                   !.calls = @ \o <<OutCall("recorder", "RecordRouteUnservableInFutureVersions",
                                            route, "UpgradeRouteValidationFailed")>>],
         eventType, route)
  ELSE ForwardToPlugin(
         [u EXCEPT !.conditions = RecordRouteUnservableInFutureVersionsClear(@, route),
                   !.calls = @ \o <<OutCall("recorder", "RecordRouteUnservableInFutureVersionsClear",
                                            route, "")>>],
         eventType, route)

\* an upgrade validator that sets the condition and never clears it
UpgradeValidationHandleRoute_NoClear(u, forceAdd, forceRemove, eventType, route) ==
  IF forceAdd # "" \/ forceRemove # "" \/ UpgradeRouteValidation(route) = "nil"
  THEN ForwardToPlugin(u, eventType, route)
  ELSE ForwardToPlugin(
         [u EXCEPT !.conditions = RecordRouteUnservableInFutureVersions(@, route),
                   !.calls = @ \o <<OutCall("recorder", "RecordRouteUnservableInFutureVersions",
                                            route, "UpgradeRouteValidationFailed")>>],
         eventType, route)

\* an upgrade validator that looks at the forced removal first
UpgradeValidationHandleRoute_RemoveFirst(u, forceAdd, forceRemove, eventType, route) ==
  IF forceRemove # ""
  THEN ForwardToPlugin(
         [u EXCEPT !.conditions = RecordRouteConditionClear(@, route, forceRemove),
                   !.calls = @ \o <<OutCall("recorder", "RecordRouteConditionClear", route, forceRemove)>>],
         eventType, route)
  ELSE ForwardToPlugin(
         [u EXCEPT !.conditions = RecordRouteConditionTrue(@, route, forceAdd),
                   !.calls = @ \o <<OutCall("recorder", "RecordRouteConditionTrue", route, forceAdd)>>],
         eventType, route)

UpgradeValidationHandleRoute(u, forceAdd, forceRemove, eventType, route) ==
  IF forceAdd # ""
  THEN ForwardToPlugin(
         [u EXCEPT !.conditions = RecordRouteConditionTrue(@, route, forceAdd),
                   !.calls = @ \o <<OutCall("recorder", "RecordRouteConditionTrue", route, forceAdd)>>],
         eventType, route)
  ELSE IF forceRemove # ""
  THEN ForwardToPlugin(
         [u EXCEPT !.conditions = RecordRouteConditionClear(@, route, forceRemove),
                   !.calls = @ \o <<OutCall("recorder", "RecordRouteConditionClear", route, forceRemove)>>],
         eventType, route)
  ELSE IF UpgradeRouteValidation(route) # "nil"
  THEN ForwardToPlugin(
         [u EXCEPT !.conditions = RecordRouteUnservableInFutureVersions(@, route),
                   !.calls = @ \o <<OutCall("recorder", "RecordRouteUnservableInFutureVersions",
                                            route, "UpgradeRouteValidationFailed")>>],
         eventType, route)
  ELSE ForwardToPlugin(
         [u EXCEPT !.conditions = RecordRouteUnservableInFutureVersionsClear(@, route),
                   !.calls = @ \o <<OutCall("recorder", "RecordRouteUnservableInFutureVersionsClear",
                                            route, "")>>],
         eventType, route)

(***************************************************************************)
(* The soft validators in front of fakePlugin                              *)
(* (TestHandleRouteDeprecationValidation; NewUpgradeValidation with the    *)
(* force options an operator may configure).  The conditions a route       *)
(* carries outlive the process, so a forced condition may be there at      *)
(* start.                                                                  *)
(***************************************************************************)
ForcedConditions == {"", "Admitted"}

InitSoft ==
  /\ InitRouter
  /\ NoScan
  /\ NoEndpoints
  /\ NoMetric
  /\ NoNodeEvent
  /\ fake \in {[Route |-> NoRoute, Err |-> e] : e \in FakeErrs}
  /\ templatePlugin = {}
  /\ deprecated = <<>>
  /\ conditions \in {{}, {Condition(ValidatorRoute("001", ""), "Admitted")}}
  /\ calls = <<>>
  /\ forceAddCondition \in ForcedConditions
  /\ forceRemoveCondition \in ForcedConditions

DeprecationHandleRoute(eventType, route) ==
  /\ DeprecatedValidateRoute(route) # "nil" => Len(deprecated) < MaxRecords
  /\ LET d == DeprecationValidationHandleRoute(
                [deprecated |-> deprecated, fake |-> fake, calls |-> <<>>, err |-> "nil"],
                eventType, route)
     IN /\ deprecated' = d.deprecated
        /\ fake' = d.fake
        /\ calls' = d.calls
        /\ last' = Call("DeprecationValidation.HandleRoute", eventType, route, {}, d.err,
                        NoNamespaceFilter)
  /\ UNCHANGED <<routerVars, rejections, templatePlugin, conditions, forceAddCondition,
                 forceRemoveCondition, scanVars, endpointVars, metricVars, node>>

UpgradeHandleRoute(eventType, route) ==
  /\ LET u == UpgradeValidationHandleRoute(
                [conditions |-> conditions, fake |-> fake, calls |-> <<>>, err |-> "nil"],
                forceAddCondition, forceRemoveCondition, eventType, route)
     IN /\ conditions' = u.conditions
        /\ fake' = u.fake
        /\ calls' = u.calls
        /\ last' = Call("UpgradeValidation.HandleRoute", eventType, route, {}, u.err,
                        NoNamespaceFilter)
  /\ UNCHANGED <<routerVars, rejections, templatePlugin, deprecated, forceAddCondition,
                 forceRemoveCondition, scanVars, endpointVars, metricVars, node>>

NextSoft ==
  \/ \E eventType \in EventTypes, route \in ValidatorRoutes :
       DeprecationHandleRoute(eventType, route)
  \/ \E eventType \in EventTypes, route \in ValidatorRoutes :
       UpgradeHandleRoute(eventType, route)

SpecSoft == InitSoft /\ [][NextSoft]_vars

(***************************************************************************)
(* pathWithRewriteHasInvalidChars: the quote-tracking scanner.  A path is  *)
(* a sequence of characters; i counts from 1.                              *)
(***************************************************************************)
\* the longest path scanned
MaxPathLen == 4

\* the characters the scanner tells apart, a letter and a digit
Chars == {"\"", "'", "\\", " ", "#", "$", "_", "a", "1"}

Paths == UNION {[1..n -> Chars] : n \in 0..MaxPathLen}

\* unicode.IsLetter
IsLetter(c) == c = "a"

RECURSIVE scanFrom(_, _, _, _)
\* the loop from index i on, then the return after the loop
scanFrom(path, i, inDoubleQuotes, inSingleQuotes) ==
  IF i > Len(path) THEN inDoubleQuotes \/ inSingleQuotes
  ELSE LET c == path[i]
       IN IF c = "\""
          THEN scanFrom(path, i + 1,
                        IF ~inSingleQuotes THEN ~inDoubleQuotes ELSE inDoubleQuotes,
                        inSingleQuotes)
          ELSE IF c = "'"
          THEN scanFrom(path, i + 1, inDoubleQuotes,
                        IF ~inDoubleQuotes THEN ~inSingleQuotes ELSE inSingleQuotes)
          ELSE IF c = "\\" /\ i < Len(path)
          THEN scanFrom(path, i + 2, inDoubleQuotes, inSingleQuotes)
          ELSE IF ~inDoubleQuotes /\ ~inSingleQuotes /\ c \in {" ", "#"}
          THEN TRUE
          ELSE IF /\ inDoubleQuotes /\ c = "$" /\ i < Len(path)
                  /\ ~IsLetter(path[i + 1]) /\ path[i + 1] # "_"
          THEN TRUE
          ELSE scanFrom(path, i + 1, inDoubleQuotes, inSingleQuotes)

pathWithRewriteHasInvalidChars(path) == scanFrom(path, 1, FALSE, FALSE)

\* the bool the scanner returned, as the variable holds it
BoolString(b) == IF b THEN "true" ELSE "false"

InitScan ==
  /\ InitRouter
  /\ NoValidators
  /\ NoEndpoints
  /\ NoMetric
  /\ NoNodeEvent
  /\ routePath \in Paths
  /\ rejected = "none"
  /\ simpleValid = "none"

Scan ==
  /\ rejected = "none"
  /\ rejected' = BoolString(pathWithRewriteHasInvalidChars(routePath))
  /\ UNCHANGED <<routerVars, rejections, last, validatorVars, routePath, simpleValid,
                 endpointVars, metricVars, node>>

NextScan == Scan

SpecScan == InitScan /\ [][NextScan]_vars

(***************************************************************************)
(* fakeSimpleValidation, the earlier validation: TRUE for a value it       *)
(* accepts                                                                 *)
(***************************************************************************)
RECURSIVE simpleFrom(_, _, _, _)
\* the loop from index i on, then the return after the loop
simpleFrom(path, i, inDoubleQuotes, inSingleQuotes) ==
  IF i > Len(path) THEN TRUE
  ELSE LET c == path[i]
       IN IF c = "\""
          THEN simpleFrom(path, i + 1,
                          IF ~inSingleQuotes THEN ~inDoubleQuotes ELSE inDoubleQuotes,
                          inSingleQuotes)
          ELSE IF c = "'"
          THEN simpleFrom(path, i + 1, inDoubleQuotes,
                          IF ~inDoubleQuotes THEN ~inSingleQuotes ELSE inSingleQuotes)
          ELSE IF c = "\\" /\ i < Len(path)
          THEN simpleFrom(path, i + 2, inDoubleQuotes, inSingleQuotes)
          ELSE IF ~inDoubleQuotes /\ ~inSingleQuotes /\ c \in {" ", "#"}
          THEN FALSE
          ELSE simpleFrom(path, i + 1, inDoubleQuotes, inSingleQuotes)

fakeSimpleValidation(path) == simpleFrom(path, 1, FALSE, FALSE)

\* the earlier validation is run on the value
SimpleValidation ==
  /\ simpleValid = "none"
  /\ simpleValid' = BoolString(fakeSimpleValidation(routePath))
  /\ UNCHANGED <<routerVars, rejections, last, validatorVars, routePath, rejected,
                 endpointVars, metricVars, node>>

\* both validations are run on the value, in either order
NextCompare ==
  \/ Scan
  \/ SimpleValidation

SpecCompare == InitScan /\ [][NextCompare]_vars

(***************************************************************************)
(* Endpoints events.  A kapi.Endpoints object is [Namespace, Name,         *)
(* Subsets], a subset is [Addresses, Ports], an address is [IP, TargetRef] *)
(* and a port is [Port, Name, Protocol]; the objects are those of          *)
(* TestHandleEndpoints and TestHandleTCPEndpoints, with two addresses in a *)
(* subset and a target reference that is no pod added.                     *)
(***************************************************************************)
\* the store counts at most this many replaced endpoint tables
MaxChanges == 2

\* a == nil TargetRef
NoRef == [Kind |-> "", Name |-> ""]

PodRef == [Kind |-> "Pod", Name |-> "pod-1"]

NodeRef == [Kind |-> "Node", Name |-> "node-1"]

IPs == {"1.1.1.1", "2.2.2.2"}

Addresses ==
  {[IP |-> ip, TargetRef |-> ref] : ip \in IPs, ref \in {NoRef, PodRef}}
    \cup {[IP |-> "1.1.1.1", TargetRef |-> NodeRef]}

AddressLists ==
  {<<>>} \cup {<<a>> : a \in Addresses}
    \cup {<<a, b>> : a \in {x \in Addresses : x.IP = "1.1.1.1"},
                     b \in {x \in Addresses : x.IP = "2.2.2.2"}}

ProtocolUDP == "UDP"

PortLists ==
  {<<[Port |-> 8080, Name |-> "port", Protocol |-> ""]>>,
   <<[Port |-> 345, Name |-> "tcp", Protocol |-> ""],
     [Port |-> 346, Name |-> "udp", Protocol |-> ProtocolUDP]>>}

EndpointsObject(addresses, ports) ==
  [Namespace |-> "foo", Name |-> "test",
   Subsets |-> <<[Addresses |-> addresses, Ports |-> ports]>>]

EndpointsObjects ==
  {EndpointsObject(addresses, ports) : addresses \in AddressLists, ports \in PortLists}

\* a route of namespace foo whose backend is the service of the Endpoints objects
fooToTest == [fooTest1 EXCEPT !.To = "test"]

EndpointRoutes == {fooToTest}

\* the key of an Endpoints object: its namespace and name
endpointsKey(e) == endpointsKeyFromParts(e.Namespace, e.Name)

Digits == <<"0", "1", "2", "3", "4", "5", "6", "7", "8", "9">>

RECURSIVE Itoa(_)
\* strconv.Itoa and Sprintf("%d") of a number that is not negative
Itoa(n) ==
  IF n < 10 THEN Digits[n + 1] ELSE Itoa(n \div 10) \o Digits[(n % 10) + 1]

\* the ID that never uses the pod reference
EndpointID_NeverPod(serviceName, portName, ip, port, targetRef) ==
  "ept:" \o serviceName \o ":" \o portName \o ":" \o ip \o ":" \o Itoa(port)

\* the ID whose pod-derived form leaves out the address
EndpointID_PodWithoutIP(serviceName, portName, ip, port, targetRef) ==
  IF targetRef # NoRef /\ targetRef.Kind = "Pod"
  THEN "pod:" \o targetRef.Name \o ":" \o serviceName \o ":" \o portName
         \o ":" \o Itoa(port)
  ELSE "ept:" \o serviceName \o ":" \o portName \o ":" \o ip \o ":" \o Itoa(port)

\* the ID of the endpoint of one address and one port of a service
EndpointID(serviceName, portName, ip, port, targetRef) ==
  IF targetRef # NoRef /\ targetRef.Kind = "Pod"
  THEN "pod:" \o targetRef.Name \o ":" \o serviceName \o ":" \o portName
         \o ":" \o ip \o ":" \o Itoa(port)
  ELSE "ept:" \o serviceName \o ":" \o portName \o ":" \o ip \o ":" \o Itoa(port)

\* the Endpoint of address a and port p of the Endpoints object e
RouterEndpoint(e, p, a) ==
  [ID |-> EndpointID(e.Name, p.Name, a.IP, p.Port, a.TargetRef),
   IP |-> a.IP,
   Port |-> Itoa(p.Port)]

RECURSIVE EndpointsOfPorts(_, _, _, _)
\* the endpoints of the ports of subset s from port j on: per port, one
\* endpoint per address, in order
EndpointsOfPorts(e, s, j, excludeUDP) ==
  IF j > Len(s.Ports) THEN <<>>
  ELSE LET p == s.Ports[j]
           ofPort == IF excludeUDP /\ p.Protocol = ProtocolUDP THEN <<>>
                     ELSE [i \in 1..Len(s.Addresses) |-> RouterEndpoint(e, p, s.Addresses[i])]
       IN ofPort \o EndpointsOfPorts(e, s, j + 1, excludeUDP)

RECURSIVE EndpointsOfSubsets(_, _, _)
EndpointsOfSubsets(e, i, excludeUDP) ==
  IF i > Len(e.Subsets) THEN <<>>
  ELSE EndpointsOfPorts(e, e.Subsets[i], 1, excludeUDP)
         \o EndpointsOfSubsets(e, i + 1, excludeUDP)

\* the endpoint table of an Endpoints object
createRouterEndpoints(e, excludeUDP) == EndpointsOfSubsets(e, 1, excludeUDP)

(***************************************************************************)
(* TestRouter: the endpoint tables.  The result is [r, replaced]: the      *)
(* router and whether AddEndpoints put a new table in place of the old.    *)
(***************************************************************************)
\* the zero ServiceUnit FindServiceUnit returns for a missing id
ZeroServiceUnit == [Name |-> <<"", "">>, EndpointTable |-> <<>>]

\* AddEndpoints without the comparison of the tables
AddEndpoints_AlwaysWrites(r, id, table) ==
  LET su == IF FindServiceUnit(r, id) THEN r.ServiceUnits[id] ELSE ZeroServiceUnit
  IN [r |-> [r EXCEPT !.ServiceUnits =
                MapPut(r.ServiceUnits, id, [su EXCEPT !.EndpointTable = table])],
      replaced |-> TRUE]

\* AddEndpoints that adds the endpoints to those the table holds
AddEndpoints_Appends(r, id, table) ==
  LET su == IF FindServiceUnit(r, id) THEN r.ServiceUnits[id] ELSE ZeroServiceUnit
  IN IF su.EndpointTable = table THEN [r |-> r, replaced |-> FALSE]
     ELSE [r |-> [r EXCEPT !.ServiceUnits =
                    MapPut(r.ServiceUnits, id,
                           [su EXCEPT !.EndpointTable = su.EndpointTable \o table])],
           replaced |-> TRUE]

AddEndpoints(r, id, table) ==
  LET su == IF FindServiceUnit(r, id) THEN r.ServiceUnits[id] ELSE ZeroServiceUnit
  IN IF su.EndpointTable = table THEN [r |-> r, replaced |-> FALSE]
     ELSE [r |-> [r EXCEPT !.ServiceUnits =
                    MapPut(r.ServiceUnits, id, [su EXCEPT !.EndpointTable = table])],
           replaced |-> TRUE]

\* a delete that creates the unit it does not find
DeleteEndpoints_Creates(r, id) ==
  [r |-> [r EXCEPT !.ServiceUnits =
            MapPut(r.ServiceUnits, id, [Name |-> id, EndpointTable |-> <<>>])],
   replaced |-> FALSE]

DeleteEndpoints(r, id) ==
  IF ~FindServiceUnit(r, id) THEN [r |-> r, replaced |-> FALSE]
  ELSE [r |-> [r EXCEPT !.ServiceUnits =
                 MapPut(r.ServiceUnits, id,
                        [r.ServiceUnits[id] EXCEPT !.EndpointTable = <<>>])],
        replaced |-> FALSE]

\* TemplatePlugin.HandleEndpoints: the unit is created on first reference,
\* then its table is replaced or emptied.  calls holds the calls made to the
\* router, with what AddEndpoints did to the table.
TemplateHandleEndpoints(r, udp, eventType, e) ==
  LET key == endpointsKey(e)
      found == FindServiceUnit(r, key)
      r1 == IF ~found THEN CreateServiceUnit(r, key) ELSE r
      created == IF ~found THEN <<OutCall("router", "CreateServiceUnit", NoRoute, "")>>
                 ELSE <<>>
  IN IF eventType \in {Added, Modified}
     THEN LET a == AddEndpoints(r1, key, createRouterEndpoints(e, ~udp))
          IN [r |-> a.r, replaced |-> a.replaced,
              calls |-> Append(created,
                               OutCall("router", "AddEndpoints", NoRoute,
                                       IF a.replaced THEN "replaced" ELSE "unchanged"))]
     ELSE LET d == DeleteEndpoints(r1, key)
          IN [r |-> d.r, replaced |-> d.replaced,
              calls |-> Append(created, OutCall("router", "DeleteEndpoints", NoRoute, ""))]

\* UniqueHost.HandleEndpoints passes the event on
UniqueHostHandleEndpoints(r, udp, eventType, e) ==
  TemplateHandleEndpoints(r, udp, eventType, e)

\* the router and the plugins as TestHandleEndpoints (includeUDP) and
\* TestHandleTCPEndpoints (not includeUDP) construct them
InitEndpoints ==
  /\ InitRouter
  /\ NoValidators
  /\ NoScan
  /\ endpoints = NoEndpointsObject
  /\ includeUDP \in BOOLEAN
  /\ changes = 0
  /\ dirty = FALSE
  /\ NoMetric
  /\ NoNodeEvent

HandleEndpoints(eventType, e) ==
  /\ changes < MaxChanges
  /\ LET c == UniqueHostHandleEndpoints(Cur.r, includeUDP, eventType, e)
     IN /\ ServiceUnits' = c.r.ServiceUnits
        /\ changes' = IF c.replaced THEN changes + 1 ELSE changes
        /\ dirty' = (dirty \/ c.r.ServiceUnits # ServiceUnits)
        /\ calls' = c.calls
  /\ endpoints' = e
  /\ last' = Call("HandleEndpoints", eventType, NoRoute, {}, "nil", last.scope)
  /\ UNCHANGED <<State, index, allowedNamespaces, rejections, fake, templatePlugin,
                 deprecated, conditions, forceAddCondition, forceRemoveCondition,
                 scanVars, includeUDP, metricVars, node>>

NextEndpoints ==
  \/ \E eventType \in EventTypes, e \in EndpointsObjects : HandleEndpoints(eventType, e)
  \/ \E eventType \in EventTypes, route \in EndpointRoutes : HandleRoute(eventType, route)

SpecEndpoints == InitEndpoints /\ [][NextEndpoints]_vars

(***************************************************************************)
(* The store's DeleteEndpoints called on its own, for a service the store  *)
(* may or may not hold                                                     *)
(***************************************************************************)
ServiceNames == {"test", "absent"}

RouterDeleteEndpoints(name) ==
  /\ LET d == DeleteEndpoints(Cur.r, endpointsKeyFromParts("foo", name))
     IN /\ ServiceUnits' = d.r.ServiceUnits
        /\ dirty' = (dirty \/ d.r.ServiceUnits # ServiceUnits)
  /\ calls' = <<>>
  /\ endpoints' = [Namespace |-> "foo", Name |-> name, Subsets |-> <<>>]
  /\ last' = Call("DeleteEndpoints", "", NoRoute, {}, "nil", last.scope)
  /\ UNCHANGED <<State, index, allowedNamespaces, rejections, fake, templatePlugin,
                 deprecated, conditions, forceAddCondition, forceRemoveCondition,
                 scanVars, includeUDP, changes, metricVars, node>>

NextStore ==
  \/ \E eventType \in EventTypes, e \in EndpointsObjects : HandleEndpoints(eventType, e)
  \/ \E name \in ServiceNames : RouterDeleteEndpoints(name)

SpecStore == InitEndpoints /\ [][NextStore]_vars

(***************************************************************************)
(* Commit.  Every validator stage hands Commit to the next stage           *)
(* (return p.plugin.Commit()); the template plugin hands it to the router. *)
(* A stage's Commit takes what the rest of the chain did, [calls, err],    *)
(* and puts its own call in front.  The commit scheduler calls Commit on   *)
(* the first stage.                                                        *)
(***************************************************************************)
\* TestRouter.Commit: no op
TestRouterCommit(r) == r

\* TemplatePlugin.Commit calls the router's Commit
TemplateCommit ==
  [calls |-> <<OutCall("router", "Commit", NoRoute, "TemplatePlugin")>>, err |-> "nil"]

UpgradeValidationCommit(next) ==
  [calls |-> <<OutCall("plugin", "Commit", NoRoute, "UpgradeValidation")>> \o next.calls,
   err |-> next.err]

DeprecationValidationCommit(next) ==
  [calls |-> <<OutCall("plugin", "Commit", NoRoute, "DeprecationValidation")>> \o next.calls,
   err |-> next.err]

\* a stage that returns without calling the next stage
ExtendedValidatorCommit_Swallows(next) ==
  [calls |-> <<>>, err |-> "nil"]

ExtendedValidatorCommit(next) ==
  [calls |-> <<OutCall("plugin", "Commit", NoRoute, "ExtendedValidator")>> \o next.calls,
   err |-> next.err]

\* the chain in the order of section 2: structural validation, deprecation
\* check, forward-compatibility check, then the template plugin
ChainCommit ==
  ExtendedValidatorCommit(DeprecationValidationCommit(UpgradeValidationCommit(TemplateCommit)))

\* the Commit call reached the router
ReachedRouter(cs) ==
  \E i \in 1..Len(cs) : cs[i].to = "router" /\ cs[i].op = "Commit"

\* the scheduler calls Commit; a call that reaches the router starts one
\* synthesize+reload cycle of the state as it is, after which nothing is
\* left to commit
Commit ==
  /\ LET c == ChainCommit
     IN /\ calls' = c.calls
        /\ dirty' = IF ReachedRouter(c.calls) THEN FALSE ELSE dirty
        /\ ServiceUnits' = TestRouterCommit(Cur.r).ServiceUnits
        /\ State' = TestRouterCommit(Cur.r).State
        /\ last' = Call("Commit", "", NoRoute, {}, c.err, last.scope)
  /\ UNCHANGED <<index, allowedNamespaces, rejections, fake, templatePlugin, deprecated,
                 conditions, forceAddCondition, forceRemoveCondition, scanVars,
                 endpoints, includeUDP, changes, metricVars, node>>

NextCommit ==
  \/ \E eventType \in EventTypes, e \in EndpointsObjects : HandleEndpoints(eventType, e)
  \/ Commit

\* the scheduler triggers a commit after a mutation: Commit is not put off
\* for ever
SpecCommit == InitEndpoints /\ [][NextCommit]_vars /\ WF_vars(Commit)

(***************************************************************************)
(* The ExtendedValidator of plugin_test.go, which runs the post-upgrade    *)
(* rules after the structural ones and counts their failures in the gauge  *)
(* template_router_post_invalid_route.  v is [rejections, fake, calls,     *)
(* err, metric].                                                           *)
(***************************************************************************)
\* the gauge is not raised past this
MaxGauge == 3

\* routeapihelpers.PostUpgradeRouteValidation: "nil" or the aggregate error
PostUpgradeRouteValidation(route) ==
  IF route.TLS = "sha1" THEN "x509: insecure algorithm SHA1-RSA"
  ELSE "nil"

NewExtendedValidator(plugin) ==
  [rejections |-> <<>>, fake |-> plugin, templatePlugin |-> {}, calls |-> <<>>,
   err |-> "nil", metric |-> 0]

\* p.metricPostUpgradeInvalidRoute.Add(1)
GaugeAdd(v, n) == [v EXCEPT !.metric = @ + n]

PostUpgradeValidatorHandleRoute(v, eventType, route) ==
  IF ExtendedValidateRoute(route) # "nil"
  THEN RejectInvalidRoute(v, eventType, route, ExtendedValidateRoute(route))
  ELSE IF PostUpgradeRouteValidation(route) # "nil"
       THEN ForwardToPlugin(GaugeAdd(v, 1), eventType, route)
       ELSE ForwardToPlugin(v, eventType, route)

\* the routes of the cluster after the event: one version per route
RoutesAfter(held, eventType, route) ==
  LET others == {r \in held : r.UID # route.UID}
  IN IF eventType = Deleted THEN others ELSE others \cup {route}

InitMetric ==
  /\ InitRouter
  /\ NoScan
  /\ NoEndpoints
  /\ metricPostUpgradeInvalidRoute = 0
  /\ present = {}
  /\ NoNodeEvent
  /\ fake \in {[Route |-> NoRoute, Err |-> e] : e \in FakeErrs}
  /\ templatePlugin = {}
  /\ deprecated = <<>>
  /\ conditions = {}
  /\ calls = <<>>
  /\ forceAddCondition = ""
  /\ forceRemoveCondition = ""

PostUpgradeHandleRoute(eventType, route) ==
  /\ Len(rejections) < MaxRecords
  /\ metricPostUpgradeInvalidRoute < MaxGauge
  /\ LET v == PostUpgradeValidatorHandleRoute(
                [NewExtendedValidator(fake) EXCEPT
                   !.rejections = rejections,
                   !.metric = metricPostUpgradeInvalidRoute],
                eventType, route)
     IN /\ rejections' = v.rejections
        /\ fake' = v.fake
        /\ calls' = v.calls
        /\ metricPostUpgradeInvalidRoute' = v.metric
        /\ last' = Call("ExtendedValidator.HandleRoute", eventType, route, {}, v.err,
                        NoNamespaceFilter)
  /\ present' = RoutesAfter(present, eventType, route)
  /\ UNCHANGED <<routerVars, templatePlugin, deprecated, conditions, forceAddCondition,
                 forceRemoveCondition, scanVars, endpointVars, node>>

NextMetric ==
  \/ \E eventType \in EventTypes, route \in ValidatorRoutes :
       PostUpgradeHandleRoute(eventType, route)
  \/ ClearRecorder

SpecMetric == InitMetric /\ [][NextMetric]_vars

(***************************************************************************)
(* The handlers the validator stages only pass on: HandleEndpoints,        *)
(* HandleNode, HandleNamespaces and Commit.  Each is                       *)
(* return p.plugin.<handler>(<arguments>).  v is the stage with its        *)
(* recorder and the next stage, [rejections, deprecated, conditions, fake, *)
(* templatePlugin, calls, err]; the arguments of a call to the next stage  *)
(* are recorded as [eventType, endpoints, node, namespaces].               *)
(***************************************************************************)
Nodes == {[Name |-> "node-1"], [Name |-> "node-2"]}

Arguments(eventType, e, n, namespaces) ==
  [eventType |-> eventType, endpoints |-> e, node |-> n, namespaces |-> namespaces]

\* fakePlugin: return p.Err
fakePluginHandleEndpoints(p, eventType, e) == p

fakePluginHandleNode(p, eventType, n) == p

fakePluginHandleNamespaces(p, namespaces) == p

fakePluginCommit(p) == [calls |-> <<>>, err |-> p.Err]

\* return p.plugin.HandleEndpoints(eventType, endpoints)
PluginHandleEndpoints(v, eventType, e) ==
  [v EXCEPT !.fake = fakePluginHandleEndpoints(@, eventType, e),
            !.calls = @ \o <<OutCall("plugin", "HandleEndpoints", NoRoute,
                                     Arguments(eventType, e, NoNode, {}))>>,
            !.err = v.fake.Err]

\* return p.plugin.HandleNode(eventType, node)
PluginHandleNode(v, eventType, n) ==
  [v EXCEPT !.fake = fakePluginHandleNode(@, eventType, n),
            !.calls = @ \o <<OutCall("plugin", "HandleNode", NoRoute,
                                     Arguments(eventType, NoEndpointsObject, n, {}))>>,
            !.err = v.fake.Err]

\* return p.plugin.HandleNamespaces(namespaces)
PluginHandleNamespaces(v, namespaces) ==
  [v EXCEPT !.fake = fakePluginHandleNamespaces(@, namespaces),
            !.calls = @ \o <<OutCall("plugin", "HandleNamespaces", NoRoute,
                                     Arguments("", NoEndpointsObject, NoNode, namespaces))>>,
            !.err = v.fake.Err]

ExtendedValidatorHandleEndpoints(v, eventType, e) == PluginHandleEndpoints(v, eventType, e)

ExtendedValidatorHandleNode(v, eventType, n) == PluginHandleNode(v, eventType, n)

ExtendedValidatorHandleNamespaces(v, namespaces) == PluginHandleNamespaces(v, namespaces)

\* a stage that records a deprecation for every endpoints event
DeprecationValidationHandleEndpoints_Records(v, eventType, e) ==
  LET w == PluginHandleEndpoints(v, eventType, e)
  IN [w EXCEPT !.deprecated = RecordRouteDeprecated(@, NoRoute, "Endpoints", ""),
               !.calls = @ \o <<OutCall("recorder", "RecordRouteDeprecated", NoRoute,
                                        Arguments(eventType, e, NoNode, {}))>>]

DeprecationValidationHandleEndpoints(v, eventType, e) == PluginHandleEndpoints(v, eventType, e)

DeprecationValidationHandleNode(v, eventType, n) == PluginHandleNode(v, eventType, n)

DeprecationValidationHandleNamespaces(v, namespaces) == PluginHandleNamespaces(v, namespaces)

UpgradeValidationHandleEndpoints(v, eventType, e) == PluginHandleEndpoints(v, eventType, e)

UpgradeValidationHandleNode(v, eventType, n) == PluginHandleNode(v, eventType, n)

UpgradeValidationHandleNamespaces(v, namespaces) == PluginHandleNamespaces(v, namespaces)

Stages == {"ExtendedValidator", "DeprecationValidation", "UpgradeValidation"}

StageHandleEndpoints(stage, v, eventType, e) ==
  CASE stage = "ExtendedValidator" -> ExtendedValidatorHandleEndpoints(v, eventType, e)
    [] stage = "DeprecationValidation" -> DeprecationValidationHandleEndpoints(v, eventType, e)
    [] stage = "UpgradeValidation" -> UpgradeValidationHandleEndpoints(v, eventType, e)

StageHandleNode(stage, v, eventType, n) ==
  CASE stage = "ExtendedValidator" -> ExtendedValidatorHandleNode(v, eventType, n)
    [] stage = "DeprecationValidation" -> DeprecationValidationHandleNode(v, eventType, n)
    [] stage = "UpgradeValidation" -> UpgradeValidationHandleNode(v, eventType, n)

StageHandleNamespaces(stage, v, namespaces) ==
  CASE stage = "ExtendedValidator" -> ExtendedValidatorHandleNamespaces(v, namespaces)
    [] stage = "DeprecationValidation" -> DeprecationValidationHandleNamespaces(v, namespaces)
    [] stage = "UpgradeValidation" -> UpgradeValidationHandleNamespaces(v, namespaces)

StageCommit(stage, next) ==
  CASE stage = "ExtendedValidator" -> ExtendedValidatorCommit(next)
    [] stage = "DeprecationValidation" -> DeprecationValidationCommit(next)
    [] stage = "UpgradeValidation" -> UpgradeValidationCommit(next)

\* the stage, its recorder and the next stage, before a call
CurStage ==
  [rejections |-> rejections, deprecated |-> deprecated, conditions |-> conditions,
   fake |-> fake, templatePlugin |-> templatePlugin, calls |-> <<>>, err |-> "nil"]

\* the call leaves the stage as v
StageBecomes(v) ==
  /\ rejections' = v.rejections
  /\ deprecated' = v.deprecated
  /\ conditions' = v.conditions
  /\ fake' = v.fake
  /\ templatePlugin' = v.templatePlugin
  /\ calls' = v.calls

\* one stage in front of fakePlugin, with a recorder that holds a record
InitStages ==
  /\ InitRouter
  /\ NoScan
  /\ NoEndpoints
  /\ NoMetric
  /\ NoNodeEvent
  /\ fake \in {[Route |-> NoRoute, Err |-> e] : e \in FakeErrs}
  /\ templatePlugin = {}
  /\ deprecated = <<>>
  /\ conditions \in {{}, {Condition(ValidatorRoute("001", ""), "Admitted")}}
  /\ calls = <<>>
  /\ forceAddCondition \in ForcedConditions
  /\ forceRemoveCondition \in ForcedConditions

PassEndpoints(stage, eventType, e) ==
  /\ LET v == StageHandleEndpoints(stage, CurStage, eventType, e)
     IN /\ StageBecomes(v)
        /\ last' = Call(stage \o ".HandleEndpoints", eventType, NoRoute, {}, v.err,
                        NoNamespaceFilter)
  /\ endpoints' = e
  /\ node' = NoNode
  /\ UNCHANGED <<routerVars, forceAddCondition, forceRemoveCondition, scanVars,
                 includeUDP, changes, dirty, metricVars>>

PassNode(stage, eventType, n) ==
  /\ LET v == StageHandleNode(stage, CurStage, eventType, n)
     IN /\ StageBecomes(v)
        /\ last' = Call(stage \o ".HandleNode", eventType, NoRoute, {}, v.err,
                        NoNamespaceFilter)
  /\ endpoints' = NoEndpointsObject
  /\ node' = n
  /\ UNCHANGED <<routerVars, forceAddCondition, forceRemoveCondition, scanVars,
                 includeUDP, changes, dirty, metricVars>>

PassNamespaces(stage, namespaces) ==
  /\ LET v == StageHandleNamespaces(stage, CurStage, namespaces)
     IN /\ StageBecomes(v)
        /\ last' = Call(stage \o ".HandleNamespaces", "", NoRoute, namespaces, v.err,
                        NoNamespaceFilter)
  /\ endpoints' = NoEndpointsObject
  /\ node' = NoNode
  /\ UNCHANGED <<routerVars, forceAddCondition, forceRemoveCondition, scanVars,
                 includeUDP, changes, dirty, metricVars>>

PassCommit(stage) ==
  /\ LET c == StageCommit(stage, fakePluginCommit(fake))
     IN /\ calls' = c.calls
        /\ last' = Call(stage \o ".Commit", "", NoRoute, {}, c.err, NoNamespaceFilter)
  /\ endpoints' = NoEndpointsObject
  /\ node' = NoNode
  /\ UNCHANGED <<routerVars, rejections, fake, templatePlugin, deprecated, conditions,
                 forceAddCondition, forceRemoveCondition, scanVars,
                 includeUDP, changes, dirty, metricVars>>

NextStages ==
  \/ \E stage \in Stages, eventType \in EventTypes, e \in EndpointsObjects :
       PassEndpoints(stage, eventType, e)
  \/ \E stage \in Stages, eventType \in EventTypes, n \in Nodes :
       PassNode(stage, eventType, n)
  \/ \E stage \in Stages, namespaces \in SUBSET Namespaces :
       PassNamespaces(stage, namespaces)
  \/ \E stage \in Stages : PassCommit(stage)

SpecStages == InitStages /\ [][NextStages]_vars

(***************************************************************************)
(* Properties                                                              *)
(***************************************************************************)
\* the step just taken is the call HandleRoute(eventType, route)
IsHandleRoute(c, eventTypes, route) ==
  c.op = "HandleRoute" /\ c.eventType \in eventTypes /\ c.route = route

Claimed(k) == k \in DOMAIN index

Owner(k) == Head(index[k])

OwnedByOther(route) ==
  Claimed(getKey(route)) /\ Owner(getKey(route)).UID # route.UID

OwnedBy(route) ==
  Claimed(getKey(route)) /\ Owner(getKey(route)).UID = route.UID

\* the route's config is the one stored under its key
Stored(route) ==
  getKey(route) \in DOMAIN State /\ State[getKey(route)] = ConfigOf(route)

\* owner holds the key of route
OwnerIs(route, owner) ==
  Claimed(getKey(route)) /\ Owner(getKey(route)) = owner

\* the route's namespace is inside the scope set by HandleNamespaces, if any
WithinScope(scope, route) == scope.set => route.Namespace \in scope.names

Rejection(route, message) ==
  [route |-> route, reason |-> "HostAlreadyClaimed", message |-> message]

\* C1: every ServiceAliasConfig in the store sits under a claimed host+path
\* key and is the config of the route that owns the key (one config per key,
\* never the config of a losing competitor).
ClaimOwnershipInvariant ==
  \A k \in DOMAIN State :
    /\ Claimed(k)
    /\ State[k] = ConfigOf(Owner(k))
    /\ \A i \in 2..Len(index[k]) :
         ConfigOf(index[k][i]) # ConfigOf(Owner(k)) => State[k] # ConfigOf(index[k][i])

\* C1 witness: a key with an owner and a losing competitor of another
\* backend, the owner's config in the store.
ClaimOwnershipWitness ==
  \E k \in DOMAIN State :
    /\ Claimed(k) /\ Len(index[k]) >= 2
    /\ State[k] = ConfigOf(Owner(k))
    /\ ConfigOf(index[k][2]) # State[k]

Older(a, b) == IF a.CreationTimestamp < b.CreationTimestamp THEN a ELSE b

\* C2: two routes a, b of distinct creationTimestamps on the same host+path,
\* offered with Added events one after the other (a first, then b, the claim
\* held by one of the two): afterwards the older of the two owns the claim and
\* its config is in the store, whichever arrived first.
OlderOwnsWhateverArrivalOrder ==
  [][ \A a, b \in Routes :
        ( /\ IsHandleRoute(last, {Added}, a)
          /\ IsHandleRoute(last', {Added}, b)
          /\ a.UID # b.UID
          /\ getKey(a) = getKey(b)
          /\ a.CreationTimestamp # b.CreationTimestamp
          /\ Claimed(getKey(a)) /\ Owner(getKey(a)).UID \in {a.UID, b.UID} )
        => ( /\ getKey(a) \in DOMAIN index'
             /\ Head(index'[getKey(a)]) = Older(a, b)
             /\ getKey(a) \in DOMAIN State'
             /\ State'[getKey(a)] = ConfigOf(Older(a, b)) )
    ]_vars

\* C2 witness: the older route arrived second and took the claim from the
\* newer one, which is now recorded as replaced.
OlderArrivedSecondWitness ==
  /\ IsHandleRoute(last, {Added}, fooDupe3)
  /\ OwnedBy(fooDupe3)
  /\ Len(index[getKey(fooDupe3)]) >= 2
  /\ index[getKey(fooDupe3)][2] = fooTest1
  /\ rejections = <<Rejection(fooTest1, "replaced by older route dupe")>>

\* C3: HandleRoute(Added or Modified) of a route whose host+path is owned by
\* a different route that is older or equally old: exactly one rejection is
\* recorded, for the incoming route, reason HostAlreadyClaimed, message
\* "route <owner> already exposes <host> and is older"; State and
\* ServiceUnits are unchanged and the owner stays first in RoutesForHost.
LosingRouteRejectedStoreUnchanged ==
  [][ \A route \in Routes :
        ( /\ IsHandleRoute(last', {Added, Modified}, route)
          /\ OwnedByOther(route)
          /\ route.CreationTimestamp >= Owner(getKey(route)).CreationTimestamp )
        => ( /\ rejections' = Append(rejections,
                   Rejection(route, "route " \o Owner(getKey(route)).Name
                               \o " already exposes " \o route.Host \o " and is older"))
             /\ State' = State
             /\ ServiceUnits' = ServiceUnits
             /\ RoutesForHost(index', route.Host).ok
             /\ RoutesForHost(index', route.Host).routes[1] = Owner(getKey(route)) )
    ]_vars

\* C3 witness: dupe was just rejected against test, whose config and unit are
\* the only ones in the store.
LosingRouteRejectedWitness ==
  /\ IsHandleRoute(last, {Added, Modified}, fooDupe2)
  /\ rejections = <<Rejection(fooDupe2, "route test already exposes www.example.com and is older")>>
  /\ OwnerIs(fooDupe2, fooTest1)
  /\ Stored(fooTest1)
  /\ DOMAIN ServiceUnits = {endpointsKeyFromParts("foo", "TestService")}

\* C4: HandleRoute(Added) of a route older than the owner of its host+path:
\* exactly one rejection is recorded, for the evicted owner, reason
\* HostAlreadyClaimed, message "replaced by older route <incoming name>",
\* none for the incoming route; the incoming route owns the key, its
\* ServiceAliasConfig is in the store and its ServiceUnits exist.
OlderRouteEvictsOwner ==
  [][ \A route \in Routes :
        ( /\ IsHandleRoute(last', {Added}, route)
          /\ OwnedByOther(route)
          /\ route.CreationTimestamp < Owner(getKey(route)).CreationTimestamp )
        => ( /\ rejections' = Append(rejections,
                   Rejection(Owner(getKey(route)), "replaced by older route " \o route.Name))
             /\ getKey(route) \in DOMAIN index'
             /\ Head(index'[getKey(route)]) = route
             /\ getKey(route) \in DOMAIN State'
             /\ State'[getKey(route)] = ConfigOf(route)
             /\ DOMAIN ConfigOf(route).ServiceUnits \subseteq DOMAIN ServiceUnits' )
    ]_vars

\* C4 witness: dupe (older) was just added over test; test is recorded as
\* replaced, dupe's config and unit are in the store.
OlderRouteEvictsOwnerWitness ==
  /\ IsHandleRoute(last, {Added}, fooDupe3)
  /\ rejections = <<Rejection(fooTest1, "replaced by older route dupe")>>
  /\ Stored(fooDupe3)
  /\ endpointsKeyFromParts("foo", "TestService2") \in DOMAIN ServiceUnits
  /\ endpointsKeyFromParts("foo", "TestService") \in DOMAIN ServiceUnits

\* C5: HandleRoute returns a nil error for Added of a route that loses
\* arbitration to an older owner and for Deleted of a route that does not own
\* its host+path; the loss shows only as the recorded rejection.
ArbitrationLossReturnsNil ==
  [][ \A route \in Routes :
        /\ ( /\ IsHandleRoute(last', {Added}, route)
             /\ OwnedByOther(route)
             /\ Owner(getKey(route)).CreationTimestamp < route.CreationTimestamp )
           => ( /\ last'.err = "nil"
                /\ Len(rejections') = Len(rejections) + 1
                /\ rejections'[Len(rejections')].route = route
                /\ rejections'[Len(rejections')].reason = "HostAlreadyClaimed" )
        /\ ( /\ IsHandleRoute(last', {Deleted}, route)
             /\ OwnedByOther(route) )
           => last'.err = "nil"
    ]_vars

\* C5 witness: the newer dupe lost against test and the call returned nil.
ArbitrationLossReturnsNilWitness ==
  /\ IsHandleRoute(last, {Added}, fooDupe2)
  /\ last.err = "nil"
  /\ OwnerIs(fooDupe2, fooTest1)
  /\ Len(rejections) = 1
  /\ rejections[1].route = fooDupe2

\* C6: a Deleted event for a route that does not own its host+path changes
\* nothing: State (the owner's config), ServiceUnits (the owner's unit, no
\* unit for the deleted route), the owner's first place in RoutesForHost and
\* the recorded rejections.
DeleteOfNonOwnerIsNoOp ==
  [][ \A route \in Routes :
        ( /\ IsHandleRoute(last', {Deleted}, route)
          /\ OwnedByOther(route) )
        => ( /\ State' = State
             /\ ServiceUnits' = ServiceUnits
             /\ rejections' = rejections
             /\ RoutesForHost(index', route.Host).ok
             /\ RoutesForHost(index', route.Host).routes[1] = Owner(getKey(route)) )
    ]_vars

\* C6 witness: the rejected dupe was deleted while test owns the host with
\* its config and unit in the store, and no unit of dupe's backend.
DeleteOfNonOwnerWitness ==
  /\ IsHandleRoute(last, {Deleted}, fooDupe2)
  /\ OwnerIs(fooDupe2, fooTest1)
  /\ Len(index[getKey(fooDupe2)]) = 2
  /\ index[getKey(fooDupe2)][2] = fooDupe2
  /\ Stored(fooTest1)
  /\ DOMAIN ServiceUnits = {endpointsKeyFromParts("foo", "TestService")}

\* C7: a Deleted event for the route that owns its host+path removes its
\* ServiceAliasConfig and its claim entry (HostLen drops by one), records no
\* rejection and leaves ServiceUnits as they were; no Deleted event ever
\* removes a ServiceUnit.
DeleteOfOwnerRemovesConfigKeepsUnits ==
  [][ \A route \in Routes :
        /\ ( /\ IsHandleRoute(last', {Deleted}, route)
             /\ OwnedBy(route) )
           => ( /\ getKey(route) \notin DOMAIN State'
                /\ getKey(route) \notin DOMAIN index'
                /\ HostLen(index') = HostLen(index) - 1
                /\ rejections' = rejections
                /\ ServiceUnits' = ServiceUnits )
        /\ IsHandleRoute(last', {Deleted}, route)
           => DOMAIN ServiceUnits \subseteq DOMAIN ServiceUnits'
    ]_vars

\* C7 witness: test was deleted at its new host; no claim and no config are
\* left, its unit still is.
DeleteOfOwnerWitness ==
  /\ IsHandleRoute(last, {Deleted}, fooTest1NewHost)
  /\ HostLen(index) = 0
  /\ DOMAIN State = {}
  /\ endpointsKeyFromParts("foo", "TestService") \in DOMAIN ServiceUnits
  /\ rejections = <<>>

\* C8: an incoming route (Added or Modified) with exactly the creationTimestamp
\* of the different route that owns its host+path does not get the claim: the
\* owner stays the owner, the store is unchanged, and the incoming route is
\* recorded as rejected.
TieKeepsOwner ==
  [][ \A route \in Routes :
        ( /\ IsHandleRoute(last', {Added, Modified}, route)
          /\ OwnedByOther(route)
          /\ route.CreationTimestamp = Owner(getKey(route)).CreationTimestamp )
        => ( /\ getKey(route) \in DOMAIN index'
             /\ Head(index'[getKey(route)]) = Owner(getKey(route))
             /\ State' = State
             /\ Len(rejections') = Len(rejections) + 1
             /\ rejections'[Len(rejections')].route = route
             /\ rejections'[Len(rejections')].reason = "HostAlreadyClaimed" )
    ]_vars

\* C8 witness: tie (same creationTimestamp as test) was offered while test
\* owned the host, and was rejected.
TieKeepsOwnerWitness ==
  /\ IsHandleRoute(last, {Added, Modified}, barTie)
  /\ OwnerIs(barTie, fooTest1)
  /\ barTie.CreationTimestamp = fooTest1.CreationTimestamp
  /\ rejections = <<Rejection(barTie, "route test already exposes www.example.com and is older")>>

\* the namespace of a ServiceUnitKey
UnitNamespace(id) == getPartsFromEndpointsKey(id)[1]

\* C9: once HandleNamespaces(S) has been called, whatever route events
\* follow, no ServiceUnit, no ServiceAliasConfig (by the units it routes to)
\* and no claim in the host index belongs to a namespace outside S; this
\* holds in the state HandleNamespaces itself leaves, and for empty S nothing
\* at all is left.
NothingOutsideNamespaceScope ==
  allowedNamespaces.set =>
    /\ \A id \in DOMAIN ServiceUnits : UnitNamespace(id) \in allowedNamespaces.names
    /\ \A k \in DOMAIN State :
         \A id \in DOMAIN State[k].ServiceUnits : UnitNamespace(id) \in allowedNamespaces.names
    /\ \A k \in DOMAIN index :
         \A i \in 1..Len(index[k]) : index[k][i].Namespace \in allowedNamespaces.names
    /\ allowedNamespaces.names = {}
         => (DOMAIN ServiceUnits = {} /\ DOMAIN State = {} /\ HostLen(index) = 0)

\* C9 witness: HandleNamespaces has just narrowed the scope to bar alone from
\* one that admitted foo; dupe of foo had replaced test before (so units of
\* foo existed), and no unit, config or claim of foo is left.
NarrowedScopeWitness ==
  /\ allowedNamespaces = [set |-> TRUE, names |-> {"bar"}]
  /\ last.op = "HandleNamespaces"
  /\ WithinScope(last.scope, fooDupe3)
  /\ rejections = <<Rejection(fooTest1, "replaced by older route dupe")>>
  /\ DOMAIN ServiceUnits = {}
  /\ DOMAIN State = {}
  /\ HostLen(index) = 0

\* a route of another namespace, inside the scope, that owns the key of
\* route and is at least as old: a competitor that wins the arbitration
BlockedByCompetitor(route) ==
  /\ OwnedByOther(route)
  /\ Owner(getKey(route)).Namespace # route.Namespace
  /\ WithinScope(allowedNamespaces, Owner(getKey(route)))
  /\ Owner(getKey(route)).CreationTimestamp <= route.CreationTimestamp

\* C10: HandleNamespaces has just widened the scope from one that excluded a
\* namespace to one that includes it; the next Added event for a route of that
\* namespace is admitted (its ServiceUnits exist, it owns its host+path, the
\* host is counted by HostLen and its config is stored), whatever events were
\* ignored before, unless an older or equally old route of another namespace
\* inside the scope owns the host+path.
WidenedScopeAdmitsNextAdded ==
  [][ \A route \in Routes :
        ( /\ last.op = "HandleNamespaces"
          /\ last.scope.set
          /\ route.Namespace \notin last.scope.names
          /\ route.Namespace \in last.namespaces
          /\ IsHandleRoute(last', {Added}, route)
          /\ ~BlockedByCompetitor(route) )
        => ( /\ DOMAIN getServiceUnits(route) \subseteq DOMAIN ServiceUnits'
             /\ getKey(route) \in DOMAIN index'
             /\ Head(index'[getKey(route)]) = route
             /\ RoutesForHost(index', route.Host).ok
             /\ HostLen(index') >= 1
             /\ getKey(route) \in DOMAIN State'
             /\ State'[getKey(route)] = ConfigOf(route) )
    ]_vars

\* C10 witness: test of foo was added right after the scope grew to foo and
\* bar; it owns its host and its unit exists.
WidenedScopeWitness ==
  /\ allowedNamespaces = [set |-> TRUE, names |-> {"foo", "bar"}]
  /\ last.scope = [set |-> TRUE, names |-> {"bar"}]
  /\ IsHandleRoute(last, {Added}, fooTest1)
  /\ OwnedBy(fooTest1)
  /\ HostLen(index) = 1
  /\ Stored(fooTest1)
  /\ DOMAIN ServiceUnits = {endpointsKeyFromParts("foo", "TestService")}

(***************************************************************************)
(* Properties of the validator stages                                      *)
(***************************************************************************)
\* the step just taken is a HandleRoute call of the stage op
IsStageCall(c, op, eventType, route) ==
  c.op = op /\ c.eventType = eventType /\ c.route = route

ToPlugin(call) == call.to = "plugin"

ToRecorder(call) == call.to = "recorder"

\* the calls the next stage received, in order
PluginCalls(cs) == SelectSeq(cs, ToPlugin)

RecorderCalls(cs) == SelectSeq(cs, ToRecorder)

\* the proxy's configuration check ran and failed
CheckFailed(cs) ==
  \E n \in 1..Len(cs) : cs[n].op = "CheckConfig" /\ cs[n].arg # "nil"

Status(route, reason, message) ==
  [route |-> route, reason |-> reason, message |-> message]

\* the invalid route is recorded once, retracted downstream and blocked
InvalidRouteRetracted(eventType, route) ==
  /\ rejections' = Append(rejections,
        Status(route, "ExtendedValidationFailed", ExtendedValidateRoute(route)))
  /\ PluginCalls(calls') = <<OutCall("plugin", Deleted, route, "")>>
  /\ eventType \in {Added, Modified}
       => \A n \in 1..Len(calls') : ToPlugin(calls'[n]) => calls'[n].op # eventType
  /\ last'.err # "nil"

\* the route is forwarded with its original event type, nothing recorded
ForwardedUnrecorded(eventType, route) ==
  /\ PluginCalls(calls') = <<OutCall("plugin", eventType, route, "")>>
  /\ fake'.Route = route
  /\ rejections' = rejections

\* C11 as stated: an invalid route is recorded once with reason
\* ExtendedValidationFailed, the next stage gets Deleted in place of the
\* event and the call returns an error, for every event type; every route
\* that passes structural validation is forwarded with its event type and
\* nothing is recorded.
InvalidRetractedEveryValidForwarded ==
  [][ \A eventType \in EventTypes, route \in ValidatorRoutes :
        IsStageCall(last', "ExtendedValidator.HandleRoute", eventType, route)
        => /\ ExtendedValidateRoute(route) # "nil"
                => InvalidRouteRetracted(eventType, route)
           /\ ExtendedValidateRoute(route) = "nil"
                => ForwardedUnrecorded(eventType, route)
    ]_vars

\* C11 amended: as above for the invalid route; a route that passes
\* structural validation is forwarded with its event type and nothing is
\* recorded when the proxy's configuration check of it succeeds too.
InvalidRetractedCheckedForwarded ==
  [][ \A eventType \in EventTypes, route \in ValidatorRoutes :
        IsStageCall(last', "ExtendedValidator.HandleRoute", eventType, route)
        => /\ ExtendedValidateRoute(route) # "nil"
                => InvalidRouteRetracted(eventType, route)
           /\ (ExtendedValidateRoute(route) = "nil" /\ ~CheckFailed(calls'))
                => ForwardedUnrecorded(eventType, route)
    ]_vars

\* C11 witness: the route was offered with mismatched cert and key in a
\* Modified event: one rejection, Deleted sent on, an error returned.
InvalidRouteRetractedWitness ==
  /\ IsStageCall(last, "ExtendedValidator.HandleRoute", Modified,
                 ValidatorRoute("001", "mismatch"))
  /\ rejections = <<Status(ValidatorRoute("001", "mismatch"), "ExtendedValidationFailed",
                           "tls: private key does not match public key")>>
  /\ PluginCalls(calls) = <<OutCall("plugin", Deleted, ValidatorRoute("001", "mismatch"), "")>>
  /\ last.err = "invalid route configuration"

\* the call recorded a rejection of its own for the route
RejectedBy(route, reasons) ==
  /\ Len(rejections') = Len(rejections) + 1
  /\ rejections'[Len(rejections')].route = route
  /\ rejections'[Len(rejections')].reason \in reasons

\* C12: whenever ExtendedValidator.HandleRoute rejects a route with a blocking
\* error of its own (ExtendedValidationFailed or HAProxyCheckConfigFailed),
\* the next stage receives a Deleted event for that route, so that it holds
\* no earlier version of the route.
BlockingRejectionSendsDeleted ==
  [][ \A eventType \in EventTypes, route \in ValidatorRoutes :
        ( /\ IsStageCall(last', "ExtendedValidator.HandleRoute", eventType, route)
          /\ RejectedBy(route, {"ExtendedValidationFailed", "HAProxyCheckConfigFailed"})
          /\ last'.err # "nil" )
        => \E n \in 1..Len(calls') : calls'[n] = OutCall("plugin", Deleted, route, "")
    ]_vars

\* the next stage received the event with its original type
ForwardedOriginal(eventType, route) ==
  \E n \in 1..Len(calls') : calls'[n] = OutCall("plugin", eventType, route, "")

\* a rejection was recorded for the route and a non-nil error returned
RejectedWithError(route) ==
  /\ RejectedBy(route, {"ExtendedValidationFailed", "HAProxyCheckConfigFailed"})
  /\ last'.err # "nil"

\* C13 as stated: every ExtendedValidator.HandleRoute call has exactly one of
\* two outcomes: the event reaches the next stage with its original type, or
\* a rejection is recorded for the route and a non-nil error is returned;
\* never neither, never both.
ForwardedOrRejectedNeverBoth ==
  [][ \A eventType \in EventTypes, route \in ValidatorRoutes :
        IsStageCall(last', "ExtendedValidator.HandleRoute", eventType, route)
        => ( ForwardedOriginal(eventType, route) = ~RejectedWithError(route) )
    ]_vars

\* C13 amended: every call has at least one of the two outcomes, and both
\* only for a Deleted event of a route that fails structural validation,
\* where the Deleted sent to the next stage is the original event.
ForwardedOrRejectedBothOnlyOnDeleted ==
  [][ \A eventType \in EventTypes, route \in ValidatorRoutes :
        IsStageCall(last', "ExtendedValidator.HandleRoute", eventType, route)
        => /\ ForwardedOriginal(eventType, route) \/ RejectedWithError(route)
           /\ (ForwardedOriginal(eventType, route) /\ RejectedWithError(route))
                <=> (eventType = Deleted /\ ExtendedValidateRoute(route) # "nil")
    ]_vars

\* C13 witness: the configuration check of a structurally valid route failed:
\* the rejection is recorded, the error returned, nothing sent to the next
\* stage.
RejectedNotForwardedWitness ==
  /\ IsStageCall(last, "ExtendedValidator.HandleRoute", Added,
                 ValidatorRoute("001", "reencrypt"))
  /\ rejections = <<Status(ValidatorRoute("001", "reencrypt"), "HAProxyCheckConfigFailed",
                           "haproxy: configuration file is not valid")>>
  /\ PluginCalls(calls) = <<>>
  /\ last.err = "haproxy: configuration file is not valid"

\* the records the recorder holds for the route
RecordsOf(rej, route) ==
  {n \in 1..Len(rej) : rej[n].route.UID = route.UID}

\* C14: the same Added event of an unchanged route, delivered a second time
\* right after the first (the proxy's check answering as before), leaves the
\* state downstream as the first delivery left it and adds no second
\* rejection record for the route, whether the route was admitted or
\* rejected.
ReplayedAddedAddsNoRecord ==
  [][ \A route \in ValidatorRoutes :
        ( /\ IsStageCall(last, "ExtendedValidator.HandleRoute", Added, route)
          /\ IsStageCall(last', "ExtendedValidator.HandleRoute", Added, route)
          /\ CheckFailed(calls) = CheckFailed(calls') )
        => ( /\ fake' = fake
             /\ templatePlugin' = templatePlugin
             /\ Cardinality(RecordsOf(rejections', route))
                  = Cardinality(RecordsOf(rejections, route)) )
    ]_vars

SoftStages == {"DeprecationValidation.HandleRoute", "UpgradeValidation.HandleRoute"}

\* C15: DeprecationValidation.HandleRoute and UpgradeValidation.HandleRoute,
\* for every event type and route and whatever their rules say, call the next
\* stage exactly once, with the same route and event type (so no Deleted in
\* place of another event), and return the next stage's result.
SoftValidatorsNeverBlock ==
  [][ \A op \in SoftStages, eventType \in EventTypes, route \in ValidatorRoutes :
        IsStageCall(last', op, eventType, route)
        => ( /\ PluginCalls(calls') = <<OutCall("plugin", eventType, route, "")>>
             /\ fake'.Route = route
             /\ last'.err = fake.Err )
    ]_vars

\* C15 witness: a route that fails the deprecation rules went on to the next
\* stage as the Modified event it was, and the next stage's error came back.
DeprecatedRouteForwardedWitness ==
  /\ IsStageCall(last, "DeprecationValidation.HandleRoute", Modified,
                 ValidatorRoute("001", "sha1"))
  /\ isDeprecated(deprecated, ValidatorRoute("001", "sha1"))
  /\ PluginCalls(calls) = <<OutCall("plugin", Modified, ValidatorRoute("001", "sha1"), "")>>
  /\ fake.Err = "fake plugin error"
  /\ last.err = "fake plugin error"

\* the records of the route identities other than route's, in order
OtherRecords(dep, route) ==
  SelectSeq(dep, LAMBDA status : status.route.UID # route.UID)

HoldsDeprecated(dep, route) ==
  \E n \in 1..Len(dep) : dep[n].route.UID = route.UID

\* C16: after DeprecationValidation.HandleRoute has processed a route, the
\* recorder holds a deprecated status for the route's identity exactly when
\* the route fails the deprecation rules: a failing route is recorded with
\* reason DeprecatedValidationFailed, a passing one has no record left, and
\* the records of other identities are as before.
DeprecatedIffRulesFail ==
  [][ \A eventType \in EventTypes, route \in ValidatorRoutes :
        IsStageCall(last', "DeprecationValidation.HandleRoute", eventType, route)
        => ( /\ HoldsDeprecated(deprecated', route) <=> DeprecatedValidateRoute(route) # "nil"
             /\ DeprecatedValidateRoute(route) # "nil"
                  => deprecated'[Len(deprecated')] =
                       Status(route, "DeprecatedValidationFailed", DeprecatedValidateRoute(route))
             /\ OtherRecords(deprecated', route) = OtherRecords(deprecated, route) )
    ]_vars

\* C16 witness: the current version of route 001 passes the rules and has no
\* record, while the record of route 002 is still there.
DeprecationClearedWitness ==
  /\ IsStageCall(last, "DeprecationValidation.HandleRoute", Modified,
                 ValidatorRoute("001", "reencrypt"))
  /\ deprecated = <<Status(ValidatorRoute("002", "sha1"), "DeprecatedValidationFailed",
                           "x509: insecure algorithm SHA1-RSA")>>

\* C17: DeprecationValidation.HandleRoute called a second time with the same
\* route leaves the recorded deprecation state as the first call left it,
\* with at most one entry for the route's identity.
DeprecationReevaluationIdempotent ==
  [][ \A eventType \in EventTypes, route \in ValidatorRoutes :
        ( /\ IsStageCall(last, "DeprecationValidation.HandleRoute", eventType, route)
          /\ IsStageCall(last', "DeprecationValidation.HandleRoute", eventType, route) )
        => ( /\ deprecated' = deprecated
             /\ Cardinality(RecordsOf(deprecated', route)) <= 1 )
    ]_vars

NormalMode == forceAddCondition = "" /\ forceRemoveCondition = ""

\* C18: with no force option configured, UpgradeValidation.HandleRoute makes
\* exactly one recorder call per route event, before it forwards the event:
\* RecordRouteUnservableInFutureVersions with reason
\* UpgradeRouteValidationFailed when the upgrade rules fail,
\* RecordRouteUnservableInFutureVersionsClear when they pass; afterwards the
\* condition is set for the route exactly when this version fails the rules.
UpgradeRecordsOncePerEvent ==
  [][ \A eventType \in EventTypes, route \in ValidatorRoutes :
        ( /\ NormalMode
          /\ IsStageCall(last', "UpgradeValidation.HandleRoute", eventType, route) )
        => ( /\ calls' =
                  <<IF UpgradeRouteValidation(route) # "nil"
                    THEN OutCall("recorder", "RecordRouteUnservableInFutureVersions", route,
                                 "UpgradeRouteValidationFailed")
                    ELSE OutCall("recorder", "RecordRouteUnservableInFutureVersionsClear", route, ""),
                    OutCall("plugin", eventType, route, "")>>
             /\ Condition(route, UnservableInFutureVersions) \in conditions'
                  <=> UpgradeRouteValidation(route) # "nil" )
    ]_vars

\* C18 witness: in normal mode the version of route 001 offered last passes
\* the rules and its condition is clear, while route 002 carries it.
UpgradeConditionFollowsLatestWitness ==
  /\ NormalMode
  /\ IsStageCall(last, "UpgradeValidation.HandleRoute", Modified,
                 ValidatorRoute("001", "reencrypt"))
  /\ Condition(ValidatorRoute("002", "sha1"), UnservableInFutureVersions) \in conditions
  /\ Condition(ValidatorRoute("001", "reencrypt"), UnservableInFutureVersions) \notin conditions
  /\ Len(RecorderCalls(calls)) = 1

RuleCalls == {"RecordRouteUnservableInFutureVersions",
              "RecordRouteUnservableInFutureVersionsClear"}

\* C19: with a force option configured, UpgradeValidation.HandleRoute does
\* not evaluate the rules: for every route, passing or failing, the one
\* recorder call sets the configured condition (force add) or clears it
\* (force remove, no force add), neither RecordRouteUnservableInFutureVersions
\* nor its Clear is called, and the event is forwarded with its own type.
ForcedModeBypassesRules ==
  [][ \A eventType \in EventTypes, route \in ValidatorRoutes :
        ( /\ ~NormalMode
          /\ IsStageCall(last', "UpgradeValidation.HandleRoute", eventType, route) )
        => ( /\ forceAddCondition # ""
                  => /\ RecorderCalls(calls') = <<OutCall("recorder", "RecordRouteConditionTrue",
                                                          route, forceAddCondition)>>
                     /\ Condition(route, forceAddCondition) \in conditions'
             /\ (forceAddCondition = "" /\ forceRemoveCondition # "")
                  => /\ RecorderCalls(calls') = <<OutCall("recorder", "RecordRouteConditionClear",
                                                          route, forceRemoveCondition)>>
                     /\ Condition(route, forceRemoveCondition) \notin conditions'
             /\ \A n \in 1..Len(calls') : calls'[n].op \notin RuleCalls
             /\ Condition(route, UnservableInFutureVersions) \in conditions'
                  <=> Condition(route, UnservableInFutureVersions) \in conditions
             /\ PluginCalls(calls') = <<OutCall("plugin", eventType, route, "")>> )
    ]_vars

\* C19 witness: force add of Admitted alone; a route that fails the upgrade
\* rules got the forced condition and not the one of the rules.
ForcedAddWitness ==
  /\ forceAddCondition = "Admitted" /\ forceRemoveCondition = ""
  /\ IsStageCall(last, "UpgradeValidation.HandleRoute", Added, ValidatorRoute("002", "sha1"))
  /\ Condition(ValidatorRoute("002", "sha1"), "Admitted") \in conditions
  /\ Condition(ValidatorRoute("002", "sha1"), UnservableInFutureVersions) \notin conditions

(***************************************************************************)
(* Properties of the scanner.  The quote regions of a value are those of   *)
(* section 4.4: a quote opens a region that the next quote of the same     *)
(* kind closes, quotes of the other kind are literal inside it, and a      *)
(* backslash outside both regions is consumed together with the next       *)
(* character.  q is the open quote, "" outside.                            *)
(***************************************************************************)
RECURSIVE TrackQuotes(_, _, _, _)
TrackQuotes(path, i, q, unquoted) ==
  IF i > Len(path) THEN [open |-> q # "", unquoted |-> unquoted]
  ELSE LET c == path[i]
       IN IF q = ""
          THEN IF c = "\\" /\ i < Len(path) THEN TrackQuotes(path, i + 2, q, unquoted)
               ELSE IF c \in {"\"", "'"} THEN TrackQuotes(path, i + 1, c, unquoted)
               ELSE TrackQuotes(path, i + 1, q, unquoted \/ c \in {" ", "#"})
          ELSE IF c = q THEN TrackQuotes(path, i + 1, "", unquoted)
               ELSE TrackQuotes(path, i + 1, q, unquoted)

\* the value ends inside an open quote region
UnmatchedQuotes(path) == TrackQuotes(path, 1, "", FALSE).open

\* the value has a space or '#' outside both quote regions
UnquotedSpaceOrHash(path) == TrackQuotes(path, 1, "", FALSE).unquoted

\* C20: the scanner rejects every path value that has unmatched quotes (it
\* ends inside an open single- or double-quoted region) or a space or '#'
\* outside both quote regions.
UnmatchedOrUnquotedRejected ==
  (rejected # "none" /\ (UnmatchedQuotes(routePath) \/ UnquotedSpaceOrHash(routePath)))
    => rejected = "true"

\* no character of the value is a space, a '#' or a '$'
OnlyQuotesAndOrdinary(path) ==
  \A i \in 1..Len(path) : path[i] \notin {" ", "#", "$"}

\* C21: a backslash escapes the next character only outside both quote
\* regions; inside a region it is an ordinary character and a quote after it
\* still closes the region.  So a value of quotes, backslashes and ordinary
\* characters is rejected exactly when, with the regions tracked that way, it
\* ends inside an open region.
BackslashEscapesOnlyOutsideQuotes ==
  (rejected # "none" /\ OnlyQuotesAndOrdinary(routePath))
    => (rejected = "true" <=> UnmatchedQuotes(routePath))

RECURSIVE DollarTrapFrom(_, _, _)
\* section 4.4 step 5 from index i on: inside a double-quoted region a '$'
\* is immediately followed by a character that is no letter and no underscore
DollarTrapFrom(path, i, q) ==
  IF i > Len(path) THEN FALSE
  ELSE LET c == path[i]
       IN IF q = ""
          THEN IF c = "\\" /\ i < Len(path) THEN DollarTrapFrom(path, i + 2, q)
               ELSE IF c \in {"\"", "'"} THEN DollarTrapFrom(path, i + 1, c)
               ELSE DollarTrapFrom(path, i + 1, q)
          ELSE IF c = q THEN DollarTrapFrom(path, i + 1, "")
               ELSE IF /\ q = "\"" /\ c = "$" /\ i < Len(path)
                       /\ ~IsLetter(path[i + 1]) /\ path[i + 1] # "_"
               THEN TRUE
               ELSE DollarTrapFrom(path, i + 1, q)

DollarTrap(path) == DollarTrapFrom(path, 1, "")

\* C22: the scanner rejects every value in which, inside a double-quoted
\* region, a '$' is immediately followed by a character that is not a letter
\* or underscore; and a '$' anywhere else is no reason to reject: a rejected
\* value has such a '$', unmatched quotes, or an unquoted space or '#'.
DollarTrapRejectedAndOnlyReason ==
  rejected # "none" =>
    /\ DollarTrap(routePath) => rejected = "true"
    /\ rejected = "true" =>
         \/ DollarTrap(routePath)
         \/ UnmatchedQuotes(routePath)
         \/ UnquotedSpaceOrHash(routePath)

(***************************************************************************)
(* The directive of haproxyConfTemplate with the path embedded as-is, and  *)
(* the configuration grammar of section 4.4 applied to that line.          *)
(***************************************************************************)
\* "http-request replace-path ^"
DirectiveHead ==
  <<"h", "t", "t", "p", "-", "r", "e", "q", "u", "e", "s", "t", " ",
    "r", "e", "p", "l", "a", "c", "e", "-", "p", "a", "t", "h", " ", "^">>

\* "(.*)$", the rest of the token the path is embedded in
MatchTail == <<"(", ".", "*", ")", "$">>

\* " '/foo\1'"
DirectiveTail == <<" ", "'", "/", "f", "o", "o", "\\", "1", "'">>

\* the line "http-request replace-path ^{{ .Path }}(.*)$ '/foo\1'"
DirectiveLine(path) == DirectiveHead \o path \o MatchTail \o DirectiveTail

RECURSIVE TokenizeFrom(_, _, _, _, _)
\* the line from index i on: q is the open quote, inToken says a token is
\* being read, ends holds the index of the last character of every token
\* read so far
TokenizeFrom(line, i, q, inToken, ends) ==
  LET closeToken == IF inToken THEN Append(ends, i - 1) ELSE ends
  IN IF i > Len(line)
     THEN [ends |-> closeToken, open |-> q # "", error |-> FALSE]
     ELSE LET c == line[i]
          IN IF q = ""
             THEN IF c = "\\" /\ i < Len(line)
                  THEN TokenizeFrom(line, i + 2, q, TRUE, ends)
                  ELSE IF c \in {"\"", "'"}
                  THEN TokenizeFrom(line, i + 1, c, TRUE, ends)
                  ELSE IF c = " "
                  THEN TokenizeFrom(line, i + 1, q, FALSE, closeToken)
                  ELSE IF c = "#"
                  THEN [ends |-> closeToken, open |-> FALSE, error |-> FALSE]
                  ELSE TokenizeFrom(line, i + 1, q, TRUE, ends)
             ELSE IF c = q
                  THEN TokenizeFrom(line, i + 1, "", TRUE, ends)
                  ELSE IF /\ q = "\"" /\ c = "$" /\ i < Len(line)
                          /\ ~IsLetter(line[i + 1]) /\ line[i + 1] # "_"
                  THEN [ends |-> ends, open |-> TRUE, error |-> TRUE]
                  ELSE TokenizeFrom(line, i + 1, q, TRUE, ends)

Tokenize(line) == TokenizeFrom(line, 1, "", FALSE, <<>>)

\* the rendered line is well-formed and the tokens are "http-request",
\* "replace-path", the token the path is embedded in, ending with "(.*)$",
\* and the replacement
WellFormedOneToken(path) ==
  LET t == Tokenize(DirectiveLine(path))
  IN /\ ~t.open
     /\ ~t.error
     /\ Len(t.ends) = 4
     /\ t.ends[3] = Len(DirectiveHead) + Len(path) + Len(MatchTail)
     /\ t.ends[4] = Len(DirectiveLine(path))

\* C23: every value the scanner accepts, embedded as-is into the rewrite
\* directive, leaves the line well-formed under the grammar of section 4.4
\* and occupies exactly one token: it does not end the token early, start a
\* comment, or leave a quote open into the rest of the line.
AcceptedValueIsOneToken ==
  rejected = "false" => WellFormedOneToken(routePath)

(***************************************************************************)
(* Properties of the endpoint tables                                       *)
(***************************************************************************)
\* the latest call is HandleEndpoints with an Added or Modified event
EndpointsAddedOrModified(c) ==
  c.op = "HandleEndpoints" /\ c.eventType \in {Added, Modified}

\* the table the unit of the Endpoints object e holds in units, <<>> if none
TableOf(units, e) ==
  IF endpointsKey(e) \in DOMAIN units THEN units[endpointsKey(e)].EndpointTable
  ELSE <<>>

\* the latest HandleEndpoints call made the call op to the router, with
\* what it did to the table
RouterCall(op, arg) ==
  \E i \in 1..Len(calls) : calls[i] = OutCall("router", op, NoRoute, arg)

\* C25: re-adding to a ServiceUnit an endpoint set that is structurally
\* identical to the table it holds leaves the store and the count of changes
\* as they were; adding a set that differs replaces the table with the set
\* and counts as exactly one change.
EndpointRoundTrip ==
  [][(EndpointsAddedOrModified(last') /\ endpointsKey(endpoints') \in DOMAIN ServiceUnits)
       => LET table == createRouterEndpoints(endpoints', ~includeUDP)
          IN IF TableOf(ServiceUnits, endpoints') = table
             THEN ServiceUnits' = ServiceUnits /\ changes' = changes
             ELSE /\ TableOf(ServiceUnits', endpoints') = table
                  /\ changes' = changes + 1]_vars

\* a set was added and replaced the table, then the identical set was added
\* again and left the table and the count alone
EndpointRoundTripWitness ==
  /\ EndpointsAddedOrModified(last)
  /\ RouterCall("AddEndpoints", "unchanged")
  /\ TableOf(ServiceUnits, endpoints) # <<>>
  /\ changes = 1

\* C26: an Endpoints Added or Modified event overwrites the endpoint table of
\* the ServiceUnit as a whole: afterwards the table holds exactly the
\* endpoints derived from that event, and none of an earlier event.
EndpointsEventOverwritesTable ==
  EndpointsAddedOrModified(last) =>
    /\ endpointsKey(endpoints) \in DOMAIN ServiceUnits
    /\ TableOf(ServiceUnits, endpoints) = createRouterEndpoints(endpoints, ~includeUDP)

\* two tables were put in place one after the other, and the table holds
\* the one endpoint of the latest event
TableOverwrittenWitness ==
  /\ EndpointsAddedOrModified(last)
  /\ RouterCall("AddEndpoints", "replaced")
  /\ ~RouterCall("CreateServiceUnit", "")
  /\ changes = 2
  /\ Len(TableOf(ServiceUnits, endpoints)) = 1

\* "pod:<pod name>:<service>:<port name>:<ip>:<port>"
PodID(podName, service, portName, ip, port) ==
  "pod:" \o podName \o ":" \o service \o ":" \o portName \o ":" \o ip \o ":" \o port

\* "ept:<service>:<port name>:<ip>:<port>"
EptID(service, portName, ip, port) ==
  "ept:" \o service \o ":" \o portName \o ":" \o ip \o ":" \o port

\* the ports of subset s that the plugin turns into endpoints
IncludedPorts(s) ==
  {j \in 1..Len(s.Ports) : includeUDP \/ s.Ports[j].Protocol # ProtocolUDP}

\* C27: the endpoint ID is fixed by service name, port name, address, port
\* and target reference: for an address with a target reference of kind Pod
\* it is "pod:<pod name>:<service>:<port name>:<ip>:<port>", for any other
\* address "ept:<service>:<port name>:<ip>:<port>".
EndpointIDFormat ==
  EndpointsAddedOrModified(last) =>
    LET table == TableOf(ServiceUnits, endpoints)
    IN \A k \in 1..Len(table) :
         \E n \in 1..Len(endpoints.Subsets) :
           LET s == endpoints.Subsets[n]
           IN \E j \in IncludedPorts(s), i \in 1..Len(s.Addresses) :
                LET a == s.Addresses[i]
                    p == s.Ports[j]
                IN /\ table[k].IP = a.IP
                   /\ table[k].Port = Itoa(p.Port)
                   /\ table[k].ID =
                        IF a.TargetRef.Kind = "Pod"
                        THEN PodID(a.TargetRef.Name, endpoints.Name, p.Name, a.IP,
                                   Itoa(p.Port))
                        ELSE EptID(endpoints.Name, p.Name, a.IP, Itoa(p.Port))

\* the table TestHandleEndpoints expects after "Endpoint mod", followed by
\* an endpoint whose target reference is no pod
EndpointIDFormatWitness ==
  /\ EndpointsAddedOrModified(last)
  /\ endpoints.Subsets[1].Addresses =
       <<[IP |-> "1.1.1.1", TargetRef |-> NodeRef], [IP |-> "2.2.2.2", TargetRef |-> PodRef]>>
  /\ TableOf(ServiceUnits, endpoints) =
       <<[ID |-> "ept:test:port:1.1.1.1:8080", IP |-> "1.1.1.1", Port |-> "8080"],
         [ID |-> "pod:pod-1:test:port:2.2.2.2:8080", IP |-> "2.2.2.2", Port |-> "8080"]>>

\* from Endpoints object old to new only IP addresses change, and every
\* address is backed by a pod
IPOnlyChange(old, new) ==
  /\ old # new
  /\ old.Namespace = new.Namespace /\ old.Name = new.Name
  /\ Len(old.Subsets) = Len(new.Subsets)
  /\ \A n \in 1..Len(old.Subsets) :
       /\ old.Subsets[n].Ports = new.Subsets[n].Ports
       /\ Len(old.Subsets[n].Addresses) = Len(new.Subsets[n].Addresses)
       /\ \A i \in 1..Len(old.Subsets[n].Addresses) :
            /\ old.Subsets[n].Addresses[i].TargetRef.Kind = "Pod"
            /\ new.Subsets[n].Addresses[i].TargetRef = old.Subsets[n].Addresses[i].TargetRef

\* the step is an Added or Modified event that follows one, and between the
\* two Endpoints objects only the IP of pod-backed addresses changes
IPChurnStep ==
  /\ EndpointsAddedOrModified(last)
  /\ EndpointsAddedOrModified(last')
  /\ IPOnlyChange(endpoints, endpoints')

IDsOf(table) == [k \in 1..Len(table) |-> table[k].ID]

\* C28: endpoint identity survives IP churn: for an endpoint backed by a pod
\* the derived endpoint ID is the same before and after an Endpoints event in
\* which only the IP address of the endpoint changes.
PodEndpointIDSurvivesIPChurn ==
  [][IPChurnStep
       => IDsOf(TableOf(ServiceUnits', endpoints')) = IDsOf(TableOf(ServiceUnits, endpoints))]_vars

\* C28 amended: for an endpoint backed by a pod, the ID derived after an
\* Endpoints event in which only the IP address changes keeps the pod name,
\* service, port name and port of the ID before and carries the new address:
\* both are "pod:<pod name>:<service>:<port name>:<ip>:<port>" with their own
\* IP, so the ID changes with the IP.
PodEndpointIDFollowsIP ==
  [][IPChurnStep
       => LET old == TableOf(ServiceUnits, endpoints)
              new == TableOf(ServiceUnits', endpoints')
          IN /\ Len(new) = Len(old)
             /\ \A k \in 1..Len(new) :
                  \E n \in 1..Len(endpoints.Subsets) :
                    \E j \in IncludedPorts(endpoints.Subsets[n]),
                       i \in 1..Len(endpoints.Subsets[n].Addresses) :
                      LET a == endpoints.Subsets[n].Addresses[i]
                          b == endpoints'.Subsets[n].Addresses[i]
                          p == endpoints.Subsets[n].Ports[j]
                      IN /\ old[k].ID = PodID(a.TargetRef.Name, endpoints.Name, p.Name,
                                              a.IP, Itoa(p.Port))
                         /\ new[k].ID = PodID(a.TargetRef.Name, endpoints.Name, p.Name,
                                              b.IP, Itoa(p.Port))
                         /\ (new[k].ID = old[k].ID) <=> (b.IP = a.IP)]_vars

\* the endpoint of pod-1 after its address changed to 2.2.2.2: the table
\* TestHandleEndpoints expects after "Endpoint mod"
PodEndpointAfterIPChurnWitness ==
  /\ EndpointsAddedOrModified(last)
  /\ changes = 2
  /\ RouterCall("AddEndpoints", "replaced")
  /\ endpoints.Subsets[1].Addresses = <<[IP |-> "2.2.2.2", TargetRef |-> PodRef]>>
  /\ TableOf(ServiceUnits, endpoints) =
       <<[ID |-> "pod:pod-1:test:port:2.2.2.2:8080", IP |-> "2.2.2.2", Port |-> "8080"]>>

\* the step is an Added or Modified event of the route, which is admitted
RouteAdmittedStep(route) ==
  /\ last'.op = "HandleRoute"
  /\ last'.eventType \in {Added, Modified}
  /\ last'.route = route
  /\ last'.err = "nil"
  /\ getKey(route) \in DOMAIN State'

\* C29: creating a ServiceUnit that is already present is a no-op: when a
\* route is admitted that references a ServiceUnitKey already in the store,
\* the ServiceUnit of that key, its endpoint table included, is left exactly
\* as it was.
CreatePresentServiceUnitIsNoOp ==
  [][\A route \in EndpointRoutes :
       \A key \in DOMAIN getServiceUnits(route) :
         (RouteAdmittedStep(route) /\ key \in DOMAIN ServiceUnits)
           => (key \in DOMAIN ServiceUnits' /\ ServiceUnits'[key] = ServiceUnits[key])]_vars

(***************************************************************************)
(* Properties of Commit                                                    *)
(***************************************************************************)
ValidatorStages == {"ExtendedValidator", "DeprecationValidation", "UpgradeValidation"}

\* the Commit call went through every validator stage and ended at the router
ThroughEveryStage(cs) ==
  /\ \A stage \in ValidatorStages :
       \E i \in 1..Len(cs) : cs[i] = OutCall("plugin", "Commit", NoRoute, stage)
  /\ cs # <<>>
  /\ cs[Len(cs)] = OutCall("router", "Commit", NoRoute, "TemplatePlugin")

Hosts == {route.Host : route \in Routes}

\* the route is in the list RoutesForHost returns for its host
Listed(idx, route) ==
  LET q == RoutesForHost(idx, route.Host)
  IN q.ok /\ \E i \in 1..Len(q.routes) : q.routes[i].UID = route.UID

\* the hosts of the configs in the store
ClaimedHosts(state) == {state[k].Host : k \in DOMAIN state}

PostUpgradeInvalid(held) ==
  {r \in held : ExtendedValidateRoute(r) = "nil" /\ PostUpgradeRouteValidation(r) # "nil"}

\* C32: after any sequence of route events the gauge
\* template_router_post_invalid_route equals the number of distinct routes,
\* still present, that pass extended validation and fail post-upgrade
\* validation; a replayed event or a deletion does not leave it above that.
GaugeCountsInvalidRoutes ==
  metricPostUpgradeInvalidRoute = Cardinality(PostUpgradeInvalid(present))

\* a route with this UID is in the index list of key k
ListedAt(idx, k, uid) ==
  k \in DOMAIN idx /\ \E i \in 1..Len(idx[k]) : idx[k][i].UID = uid

\* the keys other than the route's own on which the route is listed
OtherKeysOf(idx, route) ==
  {k \in DOMAIN idx : k # getKey(route) /\ ListedAt(idx, k, route.UID)}

\* a Modified event for a route listed under another host, whose new key
\* no other route holds
HostChangeStep(route) ==
  /\ IsHandleRoute(last', {Modified}, route)
  /\ OtherKeysOf(index, route) # {}
  /\ ~OwnedByOther(route)

\* C33: a Modified event that changes a route's host moves its claim:
\* afterwards the route is admitted under the new key with a config that
\* carries the new host, it neither holds nor wants the old host, no
\* rejection is recorded, and HostLen equals the number of distinct hosts
\* that have a claiming route.
HostChangeMovesClaim ==
  [][\A route \in Routes :
       HostChangeStep(route) =>
         /\ getKey(route) \in DOMAIN State'
         /\ State'[getKey(route)] = ConfigOf(route)
         /\ State'[getKey(route)].Host = route.Host
         /\ OtherKeysOf(index', route) = {}
         /\ \A k \in (DOMAIN State') \ {getKey(route)} :
              \A other \in Routes :
                 other.UID = route.UID => State'[k] # ConfigOf(other)
         /\ rejections' = rejections
         /\ HostLen(index') = Cardinality(ClaimedHosts(State'))]_vars

\* test moved to www.example2.com while dupe holds www.example.com
HostMovedWitness ==
  /\ IsHandleRoute(last, {Modified}, fooTest1NewHost)
  /\ Stored(fooTest1NewHost)
  /\ ~ListedAt(index, getKey(fooTest1), "001")
  /\ HostLen(index) = 2

(***************************************************************************)
(* Properties of deleting endpoints                                        *)
(***************************************************************************)
\* the unit of the latest Endpoints object is in the store with an empty table
FindableAndEmpty(units, e) ==
  /\ endpointsKey(e) \in DOMAIN units
  /\ units[endpointsKey(e)].EndpointTable = <<>>

\* C34: an Endpoints Deleted event empties the endpoint table and keeps the
\* ServiceUnit findable, whatever subsets the event carries; DeleteEndpoints
\* of a key the store holds empties that unit's table only, and of a key the
\* store does not hold creates nothing.
DeleteEmptiesTableKeepsUnit ==
  [][/\ (last'.op = "HandleEndpoints" /\ last'.eventType = Deleted)
          => FindableAndEmpty(ServiceUnits', endpoints')
     /\ last'.op = "DeleteEndpoints"
          => /\ DOMAIN ServiceUnits' = DOMAIN ServiceUnits
             /\ \A id \in DOMAIN ServiceUnits :
                  IF id = endpointsKey(endpoints')
                  THEN ServiceUnits'[id] = [ServiceUnits[id] EXCEPT !.EndpointTable = <<>>]
                  ELSE ServiceUnits'[id] = ServiceUnits[id]]_vars

\* a Deleted event that carried a subset emptied a table that held an
\* endpoint, and a later DeleteEndpoints of an absent key left the store alone
DeletedEndpointsWitness ==
  /\ last.op = "DeleteEndpoints"
  /\ endpoints.Name = "absent"
  /\ DOMAIN ServiceUnits = {endpointsKeyFromParts("foo", "test")}
  /\ changes > 0
  /\ ServiceUnits[endpointsKeyFromParts("foo", "test")].EndpointTable = <<>>

(***************************************************************************)
(* Properties of the handlers that are passed on                           *)
(***************************************************************************)
PassedHandlers == {"HandleEndpoints", "HandleNode", "HandleNamespaces", "Commit"}

\* the one call the next stage is to receive for the call c of a stage, with
\* the arguments the stage was called with
PassedCall(stage, handler, c, e, n) ==
  IF handler = "Commit" THEN OutCall("plugin", "Commit", NoRoute, stage)
  ELSE OutCall("plugin", handler, NoRoute, Arguments(c.eventType, e, n, c.namespaces))

\* C35: for HandleEndpoints, HandleNode, HandleNamespaces and Commit, each of
\* ExtendedValidator, DeprecationValidation and UpgradeValidation calls the
\* next stage exactly once with the arguments it was given, returns the next
\* stage's result as it is, calls no recorder and leaves its own state alone.
PassThroughHandlers ==
  [][\A stage \in Stages, handler \in PassedHandlers :
       last'.op = stage \o "." \o handler =>
         /\ calls' = <<PassedCall(stage, handler, last', endpoints', node')>>
         /\ last'.err = fake.Err
         /\ UNCHANGED <<rejections, deprecated, conditions, templatePlugin,
                        forceAddCondition, forceRemoveCondition>>]_vars

\* DeprecationValidation passed on a Modified endpoints event whose next
\* stage failed, with a condition in the recorder
PassedOnWitness ==
  /\ last.op = "DeprecationValidation.HandleEndpoints"
  /\ last.eventType = Modified
  /\ last.err = "fake plugin error"
  /\ endpoints.Subsets # <<>>
  /\ conditions # {}
  /\ Len(calls) = 1

(***************************************************************************)
(* Properties of the configuration check                                   *)
(***************************************************************************)
\* the validator with the state given and an empty recorder
ValidatorWith(plugin, held) ==
  [rejections |-> <<>>, fake |-> plugin, templatePlugin |-> held, calls |-> <<>>,
   err |-> "nil"]

\* every later call has the same outcome from the state after the step as
\* from the state before it
NextCallUnaffected ==
  \A eventType \in EventTypes, route \in ValidatorRoutes, checkErr \in CheckErrs :
    ExtendedValidatorHandleRoute(ValidatorWith(fake', templatePlugin'),
                                 eventType, route, checkErr)
      = ExtendedValidatorHandleRoute(ValidatorWith(fake, templatePlugin),
                                     eventType, route, checkErr)

\* the error CheckConfig returned in the calls cs
CheckError(cs) ==
  LET n == CHOOSE n \in 1..Len(cs) : cs[n].op = "CheckConfig"
  IN cs[n].arg

\* C36: when CheckConfig fails, ExtendedValidator.HandleRoute records one
\* rejection with reason HAProxyCheckConfigFailed and returns the check's
\* error, the next stage receives no event, and the validator's own state is
\* as before the call, so that any later event is processed as if the failed
\* one had not occurred.
FailedCheckLeavesValidatorIntact ==
  [][(last'.op = "ExtendedValidator.HandleRoute" /\ CheckFailed(calls')) =>
       /\ rejections' = Append(rejections,
                               Status(last'.route, "HAProxyCheckConfigFailed",
                                      CheckError(calls')))
       /\ Len(RecorderCalls(calls')) = 1
       /\ last'.err = CheckError(calls')
       /\ last'.err # "nil"
       /\ PluginCalls(calls') = <<>>
       /\ fake' = fake
       /\ templatePlugin' = templatePlugin
       /\ NextCallUnaffected]_vars

\* a route was forwarded, then a Modified event of it failed the check
FailedCheckWitness ==
  /\ last.op = "ExtendedValidator.HandleRoute"
  /\ last.eventType = Modified
  /\ CheckFailed(calls)
  /\ fake.Route = last.route
  /\ rejections # <<>>
  /\ rejections[Len(rejections)].reason = "HAProxyCheckConfigFailed"

\* the events the check plugin received, in order
CheckPluginEvents(cs) ==
  SelectSeq(cs, LAMBDA call : call.to = "templatePlugin" /\ call.op # "CheckConfig")

\* C37: after every ExtendedValidator.HandleRoute call the check-only template
\* plugin holds no route: it receives Added and then Deleted for the route of
\* the call, when the configuration check succeeds and when it fails, and no
\* event at all when structural validation fails.
CheckPluginHoldsNoRoute ==
  [][last'.op = "ExtendedValidator.HandleRoute" =>
       /\ templatePlugin' = {}
       /\ IF ExtendedValidateRoute(last'.route) # "nil"
          THEN \A n \in 1..Len(calls') : calls'[n].to # "templatePlugin"
          ELSE CheckPluginEvents(calls')
                 = <<OutCall("templatePlugin", Added, last'.route, ""),
                     OutCall("templatePlugin", Deleted, last'.route, "")>>]_vars

\* the check failed for a Deleted event and the check plugin is empty
CheckPluginCleanedWitness ==
  /\ last.op = "ExtendedValidator.HandleRoute"
  /\ last.eventType = Deleted
  /\ CheckFailed(calls)
  /\ Len(CheckPluginEvents(calls)) = 2
  /\ templatePlugin = {}

(***************************************************************************)
(* Properties of the force options                                         *)
(***************************************************************************)
BothForced == forceAddCondition # "" /\ forceRemoveCondition # ""

\* C38: when forceAddCondition and forceRemoveCondition are both set,
\* UpgradeValidation.HandleRoute applies the forced add only: its one recorder
\* call is RecordRouteConditionTrue for forceAddCondition, it never calls
\* RecordRouteConditionClear, and no condition is removed by any route event.
ForcedAddShadowsForcedRemove ==
  [][(last'.op = "UpgradeValidation.HandleRoute" /\ BothForced) =>
       /\ RecorderCalls(calls')
            = <<OutCall("recorder", "RecordRouteConditionTrue", last'.route,
                        forceAddCondition)>>
       /\ \A n \in 1..Len(calls') : calls'[n].op # "RecordRouteConditionClear"
       /\ conditions' = RecordRouteConditionTrue(conditions, last'.route, forceAddCondition)
       /\ conditions \subseteq conditions']_vars

\* with both options set, a Deleted event of route 002 added the forced
\* condition while the condition route 001 carried is still there
BothForcedWitness ==
  /\ BothForced
  /\ IsStageCall(last, "UpgradeValidation.HandleRoute", Deleted, ValidatorRoute("002", ""))
  /\ Condition(ValidatorRoute("002", ""), forceAddCondition) \in conditions
  /\ Condition(ValidatorRoute("001", ""), forceRemoveCondition) \in conditions

(***************************************************************************)
(* Properties of the arrival order of a route and its Endpoints            *)
(***************************************************************************)
\* the store holds the route's config and, for the Endpoints object e, the
\* unit with the table derived from e
RouteAndEndpointsStored(state, units, route, e, udp) ==
  /\ getKey(route) \in DOMAIN state
  /\ state[getKey(route)] = ConfigOf(route)
  /\ endpointsKey(e) \in DOMAIN units
  /\ units[endpointsKey(e)].EndpointTable = createRouterEndpoints(e, ~udp)

\* C39: for a route and the Endpoints of its backend both arrival orders end
\* in the same store: after route Added then Endpoints Added, and after
\* Endpoints Added then route Added, the ServiceUnit holds the table
\* delivered and the route's config is present; admitting the route does not
\* clear the endpoints its ServiceUnit already holds.
RouteAndEndpointsInEitherOrder ==
  [][\A route \in EndpointRoutes :
       /\ (/\ IsHandleRoute(last, {Added}, route)
           /\ Stored(route)
           /\ last'.op = "HandleEndpoints"
           /\ last'.eventType = Added
           /\ endpointsKey(endpoints') \in DOMAIN getServiceUnits(route))
            => RouteAndEndpointsStored(State', ServiceUnits', route, endpoints', includeUDP)
       /\ (/\ last.op = "HandleEndpoints"
           /\ last.eventType = Added
           /\ endpointsKey(endpoints) \in DOMAIN getServiceUnits(route)
           /\ RouteAdmittedStep(route)
           /\ last'.eventType = Added)
            => RouteAndEndpointsStored(State', ServiceUnits', route, endpoints, includeUDP)]_vars

(***************************************************************************)
(* Properties of the two validations of a path value                       *)
(***************************************************************************)
BothRun == rejected # "none" /\ simpleValid # "none"

\* the scanner rejects the value and the earlier validation accepts it
RejectedByNewerOnly == rejected = "true" /\ simpleValid = "true"

\* C40: the scanner only adds rejections to the earlier validation: a value
\* fakeSimpleValidation rejects is rejected by pathWithRewriteHasInvalidChars,
\* and the values the earlier validation accepts and the scanner rejects are
\* exactly those that end inside an open quote region or have, inside a
\* double-quoted region, a '$' followed by a character that is no letter and
\* no underscore.
NewerOnlyAddsRejections ==
  BothRun =>
    /\ simpleValid = "false" => rejected = "true"
    /\ simpleValid = "true" =>
         (rejected = "true" <=> (UnmatchedQuotes(routePath) \/ DollarTrap(routePath)))

====
